---- MODULE Spec2Model ----
(***************************************************************************)
(* planhub: synchronisation of a local tree of markdown documents with a   *)
(* remote issue tracker.  The model follows src/planhub/documents.py,      *)
(* src/planhub/layout.py, src/planhub/github.py and                        *)
(* src/planhub/cli/sync_plan.py.                                           *)
(***************************************************************************)
EXTENDS Integers, Sequences, FiniteSets, TLC

(***************************************************************************)
(* Python values.  None, str, int and list[str] are tagged records, so     *)
(* that "key absent", "key present with null" and "key present with a      *)
(* value" stay three different things.                                     *)
(***************************************************************************)
None == [t |-> "null"]

PyStr(s) == [t |-> "str", s |-> s]

PyInt(n) == [t |-> "int", n |-> n]

PyList(l) == [t |-> "list", l |-> l]

\* Python truthiness of a value (used by `or`, `and`, `if x`).
Truthy(v) ==
    CASE v.t = "null" -> FALSE
      [] v.t = "str" -> v.s # ""
      [] v.t = "int" -> v.n # 0
      [] v.t = "list" -> v.l # <<>>

\* Python `a or b`.
PyOr(a, b) == IF Truthy(a) THEN a ELSE b

\* dict.get(key): the value, or None when the key is absent.
Get(metadata, key) == IF key \in DOMAIN metadata THEN metadata[key] ELSE None

\* dict(metadata); merged.update({key: value})
DictUpdate(metadata, key, value) ==
    [k \in DOMAIN metadata \cup {key} |-> IF k = key THEN value ELSE metadata[k]]

EmptyDict == [k \in {} |-> None]

\* str.isdigit() and int(str) on the numeric strings the model uses.
DigitStrings == {"7", "21"}

StrToInt(s) == IF s = "7" THEN 7 ELSE 21

\* str.strip() != "" on the strings the model uses.
Blank(s) == s \in {"", " "}

(***************************************************************************)
(* documents.py: parsing.  A result is [ok |-> TRUE, v |-> value] or       *)
(* [ok |-> FALSE, err |-> message] (a raised DocumentError), or YAMLError,  *)
(* the exception of yaml.safe_load, which is not a DocumentError.          *)
(***************************************************************************)
Ok(v) == [ok |-> TRUE, v |-> v]

DocumentError(message) == [ok |-> FALSE, err |-> message]

YAMLError == [ok |-> FALSE, err |-> "yaml.YAMLError"]

\* The exception is not one that `except DocumentError` catches.
Uncaught(result) == ~result.ok /\ result = YAMLError

IssueStates == {"open", "closed"}

IssueStateReasons == {"completed", "not_planned", "reopened"}

\* A file: exists; header is "ok" (a mapping between two --- lines), "none"
\* (no leading ---), "unclosed" (no closing ---), "badyaml" (the text between
\* the lines is not YAML) or "notmap" (the YAML is not a mapping); meta is
\* the mapping; body the text after the header.
_parse_front_matter(file) ==
    CASE file.header = "none" -> Ok([metadata |-> EmptyDict, body |-> file.body])
      [] file.header = "unclosed" ->
            DocumentError("Missing closing front matter delimiter '---'.")
      [] file.header = "badyaml" -> YAMLError
      [] file.header = "notmap" -> DocumentError("Front matter must be a mapping.")
      [] OTHER -> Ok([metadata |-> file.meta, body |-> file.body])

_require_str(metadata, key) ==
    LET value == Get(metadata, key)
    IN  IF value.t # "str" \/ Blank(value.s)
        THEN DocumentError("Missing or invalid field.")
        ELSE Ok(value.s)

_optional_str(metadata, key) ==
    LET value == Get(metadata, key)
    IN  IF value.t = "null" THEN Ok(None)
        ELSE IF value.t # "str" THEN DocumentError("Expected a string.")
        ELSE Ok(value)

_optional_int(metadata, key) ==
    LET value == Get(metadata, key)
    IN  IF value.t = "null" THEN Ok(None)
        ELSE IF value.t = "int" THEN Ok(value)
        ELSE IF value.t = "str" /\ value.s \in DigitStrings THEN Ok(PyInt(StrToInt(value.s)))
        ELSE DocumentError("Expected an integer.")

_optional_str_list(metadata, key) ==
    LET value == Get(metadata, key)
    IN  IF value.t = "null" THEN Ok(<<>>)
        ELSE IF value.t # "list" THEN DocumentError("Expected a list of strings.")
        ELSE Ok(value.l)

_optional_milestone(metadata) ==
    IF "milestone" \notin DOMAIN metadata
    THEN Ok([milestone |-> None, milestone_number |-> None, milestone_set |-> FALSE])
    ELSE LET value == Get(metadata, "milestone")
         IN  IF value.t = "null"
             THEN Ok([milestone |-> None, milestone_number |-> None, milestone_set |-> TRUE])
             ELSE IF value.t = "int"
             THEN Ok([milestone |-> None, milestone_number |-> value, milestone_set |-> TRUE])
             ELSE IF value.t = "str"
             THEN Ok([milestone |-> value, milestone_number |-> None, milestone_set |-> TRUE])
             ELSE DocumentError("Expected 'milestone' to be a string, int, or null.")

_has_key(metadata, key) == key \in DOMAIN metadata

_parse_issue_state(value) ==
    IF value.t = "null" THEN Ok(None)
    ELSE IF value.t # "str" THEN DocumentError("Expected 'state' to be a string.")
    ELSE IF value.s \notin IssueStates THEN DocumentError("Unknown state.")
    ELSE Ok(value)

_parse_state_reason(value) ==
    IF value.t = "null" THEN Ok(None)
    ELSE IF value.t # "str" THEN DocumentError("Expected 'state_reason' to be a string.")
    ELSE IF value.s \notin IssueStateReasons THEN DocumentError("Unknown state_reason.")
    ELSE Ok(value)

\* The field checks of load_issue_document on the parsed header, in the
\* order of the code: the first failing one raises.
IssueFields(path, metadata, body) ==
    LET title == _require_str(metadata, "title")
        issue_id == _optional_str(metadata, "id")
        number == _optional_int(metadata, "number")
        labels == _optional_str_list(metadata, "labels")
        ms == _optional_milestone(metadata)
        assignees == _optional_str_list(metadata, "assignees")
        issue_type == _optional_str(metadata, "type")
        state == _parse_issue_state(Get(metadata, "state"))
        state_reason == _parse_state_reason(Get(metadata, "state_reason"))
    IN  CASE ~title.ok -> title
          [] ~issue_id.ok -> issue_id
          [] ~number.ok -> number
          [] ~labels.ok -> labels
          [] ~ms.ok -> ms
          [] ~assignees.ok -> assignees
          [] ~issue_type.ok -> issue_type
          [] ~state.ok -> state
          [] ~state_reason.ok -> state_reason
          [] OTHER ->
             Ok([path |-> path,
                 title |-> title.v,
                 body |-> body,
                 issue_id |-> issue_id.v,
                 number |-> number.v,
                 labels |-> labels.v,
                 labels_set |-> _has_key(metadata, "labels"),
                 milestone |-> ms.v.milestone,
                 milestone_number |-> ms.v.milestone_number,
                 milestone_set |-> ms.v.milestone_set,
                 assignees |-> assignees.v,
                 assignees_set |-> _has_key(metadata, "assignees"),
                 issue_type |-> issue_type.v,
                 state |-> state.v,
                 state_reason |-> state_reason.v])

\* A raised DocumentError passes through; otherwise the rest is applied.
Then(result, rest(_)) == IF result.ok THEN rest(result.v) ELSE result

load_issue_document(path, file) ==
    LET fields(fm) == IssueFields(path, fm.metadata, fm.body)
    IN  Then(_parse_front_matter(file), fields)

MilestoneFields(path, metadata, body) ==
    LET title == _require_str(metadata, "title")
        milestone_id == _optional_str(metadata, "id")
        number == _optional_int(metadata, "number")
        description == _optional_str(metadata, "description")
        due_on == _optional_str(metadata, "due_on")
        state == _parse_issue_state(Get(metadata, "state"))
    IN  CASE ~title.ok -> title
          [] ~milestone_id.ok -> milestone_id
          [] ~number.ok -> number
          [] ~description.ok -> description
          [] ~due_on.ok -> due_on
          [] ~state.ok -> state
          [] OTHER ->
             Ok([path |-> path,
                 title |-> title.v,
                 description |-> PyOr(PyOr(description.v, PyStr(body)), None),
                 due_on |-> due_on.v,
                 state |-> state.v,
                 milestone_id |-> milestone_id.v,
                 number |-> number.v,
                 body |-> body])

load_milestone_document(path, file) ==
    LET fields(fm) == MilestoneFields(path, fm.metadata, fm.body)
    IN  Then(_parse_front_matter(file), fields)

(***************************************************************************)
(* documents.py: serialisation.                                            *)
(***************************************************************************)
\* {k: v} added to a dict only when the condition holds.
PutIf(metadata, cond, key, value) ==
    IF cond THEN DictUpdate(metadata, key, value) ELSE metadata

issue_document_to_metadata(doc) ==
    LET m0 == DictUpdate(EmptyDict, "title", PyStr(doc.title))
        m1 == PutIf(m0, doc.issue_id.t # "null", "id", doc.issue_id)
        m2 == PutIf(m1, doc.number.t # "null", "number", doc.number)
        m3 == PutIf(m2, doc.labels_set, "labels", PyList(doc.labels))
        m4 == PutIf(m3, doc.milestone_set, "milestone",
                    IF doc.milestone_number.t # "null"
                    THEN doc.milestone_number ELSE doc.milestone)
        m5 == PutIf(m4, doc.assignees_set, "assignees", PyList(doc.assignees))
        m6 == PutIf(m5, doc.issue_type.t # "null", "type", doc.issue_type)
        m7 == PutIf(m6, doc.state.t # "null", "state", doc.state)
    IN  PutIf(m7, doc.state_reason.t # "null", "state_reason", doc.state_reason)

milestone_document_to_metadata(doc) ==
    LET m0 == DictUpdate(EmptyDict, "title", PyStr(doc.title))
        m1 == PutIf(m0, doc.milestone_id.t # "null", "id", doc.milestone_id)
        m2 == PutIf(m1, doc.number.t # "null", "number", doc.number)
        m3 == PutIf(m2, doc.description.t # "null", "description", doc.description)
        m4 == PutIf(m3, doc.due_on.t # "null", "due_on", doc.due_on)
    IN  PutIf(m4, doc.state.t # "null", "state", doc.state)

\* render_markdown: a header (always a closed mapping) followed by the body.
render_markdown(front_matter, body) ==
    [exists |-> TRUE, header |-> "ok", meta |-> front_matter, body |-> body]

\* A write-back that renders the cached mapping without the update.
update_front_matter_NotMerged(key, value, cached_metadata, cached_body) ==
    [exists |-> TRUE, header |-> "ok", meta |-> cached_metadata, body |-> cached_body]

\* update_front_matter with cached_metadata and cached_body given: the file
\* is not read again; the cached mapping is merged with the update and written.
update_front_matter(key, value, cached_metadata, cached_body) ==
    render_markdown(DictUpdate(cached_metadata, key, value), cached_body)

(***************************************************************************)
(* layout.py: the directory convention.  A path is a directory and a file  *)
(* name.  The model has two milestone directories and, in each issues      *)
(* directory, the file names of IssueNames; all listings are sorted.       *)
(***************************************************************************)
MILESTONE_FILENAME == "milestone.md"

MilestoneDirs == <<"milestones/m1", "milestones/m2">>

ROOT_ISSUES_DIR == "issues"

IssueNames ==
    <<"00000000-a-2.md", "00000000-a-3.md", "00000000-a-8.md", "00000000-a.md", "a.md", "b.md">>

Path(dir, name) == [dir |-> dir, name |-> name]

\* milestone_dir / ISSUES_DIR_NAME
IssuesDirOf(milestone_dir) ==
    IF milestone_dir = "milestones/m1" THEN "milestones/m1/issues"
    ELSE "milestones/m2/issues"

MilestonePaths == {Path(MilestoneDirs[k], MILESTONE_FILENAME) : k \in 1..Len(MilestoneDirs)}

IssuePaths ==
    {Path(d, IssueNames[n]) :
        d \in {ROOT_ISSUES_DIR} \cup {IssuesDirOf(MilestoneDirs[k]) : k \in 1..Len(MilestoneDirs)},
        n \in 1..Len(IssueNames)}

AllPaths == MilestonePaths \cup IssuePaths

NoFile == [exists |-> FALSE, header |-> "none", meta |-> EmptyDict, body |-> ""]

\* The elements of a sorted sequence that lie in a set, in order.
RECURSIVE SelectFrom(_, _, _)
SelectFrom(seq, k, S) ==
    IF k > Len(seq) THEN <<>>
    ELSE (IF seq[k] \in S THEN <<seq[k]>> ELSE <<>>) \o SelectFrom(seq, k + 1, S)

\* _sorted_files(directory, "*.md")
_sorted_files(fs, directory) ==
    LET names == SelectFrom(IssueNames, 1,
                            {IssueNames[n] : n \in {m \in 1..Len(IssueNames) :
                                                    fs[Path(directory, IssueNames[m])].exists}})
    IN  [k \in 1..Len(names) |-> Path(directory, names[k])]

\* _sorted_dirs(layout.milestones_dir)
_sorted_dirs(ds) == SelectFrom(MilestoneDirs, 1, ds)

discover_milestones(fs, ds) ==
    LET sorted == _sorted_dirs(ds)
    IN  [k \in 1..Len(sorted) |->
            [directory |-> sorted[k],
             milestone_file |-> Path(sorted[k], MILESTONE_FILENAME),
             issue_files |-> _sorted_files(fs, IssuesDirOf(sorted[k]))]]

discover_root_issues(fs) == _sorted_files(fs, ROOT_ISSUES_DIR)

(***************************************************************************)
(* sync_plan.py: the plan and its builder.  An error is the path it names  *)
(* and its message.                                                        *)
(***************************************************************************)
Error(path, msg) == [path |-> path, msg |-> msg]

NoPath == Path("", "")

SyncPlan ==
    [milestones_to_create |-> <<>>,
     milestones_to_update |-> <<>>,
     issues_to_create |-> <<>>,
     issues_to_update |-> <<>>,
     milestone_numbers |-> EmptyDict,
     milestone_titles_by_dir |-> EmptyDict]

\* A validation that lets a state_reason pass beside any given state.
_validate_issue_state_AnyStateAllowed(issue_doc) ==
    Truthy(issue_doc.state_reason) /\ issue_doc.state = None

\* True when the document is rejected (and an error is appended).
_validate_issue_state(issue_doc) ==
    Truthy(issue_doc.state_reason) /\ issue_doc.state # PyStr("closed")

\* One turn of the loop of _collect_issues_for_entry and of
\* _collect_root_issues: b is [plan, errors, parsed, raised], loaded the
\* result of load_issue_document.  raised: an exception has left the loop.
CollectIssue(b, issue_file, loaded, milestone_title) ==
    IF b.raised THEN b
    ELSE IF Uncaught(loaded) THEN [b EXCEPT !.raised = TRUE]
    ELSE IF ~loaded.ok
    THEN [b EXCEPT !.errors = Append(@, Error(issue_file, loaded.err))]
    ELSE IF _validate_issue_state(loaded.v)
    THEN [b EXCEPT !.errors =
            Append(@, Error(issue_file, "state_reason requires state='closed'."))]
    ELSE IF loaded.v.number = None
    THEN [b EXCEPT !.plan.issues_to_create =
                        Append(@, [path |-> issue_file, doc |-> loaded.v,
                                   milestone_title |-> milestone_title]),
                   !.parsed = @ + 1]
    ELSE [b EXCEPT !.plan.issues_to_update =
                        Append(@, [path |-> issue_file, doc |-> loaded.v,
                                   milestone_title |-> milestone_title]),
                   !.parsed = @ + 1]

RECURSIVE CollectIssues(_, _, _, _, _)
CollectIssues(fs, issue_files, k, milestone_title, b) ==
    IF k > Len(issue_files) THEN b
    ELSE CollectIssues(fs, issue_files, k + 1, milestone_title,
                       CollectIssue(b, issue_files[k],
                                    load_issue_document(issue_files[k], fs[issue_files[k]]),
                                    milestone_title))

_collect_issues_for_entry(fs, entry, plan_, errors_) ==
    CollectIssues(fs, entry.issue_files, 1,
                  Get(plan_.milestone_titles_by_dir, entry.directory),
                  [plan |-> plan_, errors |-> errors_, parsed |-> 0, raised |-> FALSE])

_collect_root_issues(fs, plan_, errors_) ==
    CollectIssues(fs, discover_root_issues(fs), 1, None,
                  [plan |-> plan_, errors |-> errors_, parsed |-> 0, raised |-> FALSE])

\* A classification that takes every milestone for a missing one.
ClassifyMilestone_AlwaysCreate(plan_, entry, milestone_doc) ==
    [plan_ EXCEPT
        !.milestone_titles_by_dir = DictUpdate(@, entry.directory, PyStr(milestone_doc.title)),
        !.milestones_to_create =
            Append(@, [path |-> entry.milestone_file, doc |-> milestone_doc])]

\* The plan after a parsed milestone is classified.
ClassifyMilestone(plan_, entry, milestone_doc) ==
    IF milestone_doc.number # None
    THEN [plan_ EXCEPT
            !.milestone_titles_by_dir = DictUpdate(@, entry.directory, PyStr(milestone_doc.title)),
            !.milestone_numbers = DictUpdate(@, milestone_doc.title, milestone_doc.number),
            !.milestones_to_update =
                Append(@, [path |-> entry.milestone_file, doc |-> milestone_doc])]
    ELSE [plan_ EXCEPT
            !.milestone_titles_by_dir = DictUpdate(@, entry.directory, PyStr(milestone_doc.title)),
            !.milestones_to_create =
                Append(@, [path |-> entry.milestone_file, doc |-> milestone_doc])]

\* A builder that does not count the milestone.
WithIssues_NotCounted(b, issues) ==
    [plan |-> issues.plan,
     errors |-> issues.errors,
     parsed_milestones |-> b.parsed_milestones,
     parsed_issues |-> b.parsed_issues + issues.parsed,
     raised |-> issues.raised]

\* b with the issues of the entry collected and the counts advanced.
WithIssues(b, issues) ==
    [plan |-> issues.plan,
     errors |-> issues.errors,
     parsed_milestones |-> b.parsed_milestones + 1,
     parsed_issues |-> b.parsed_issues + issues.parsed,
     raised |-> issues.raised]

\* One turn of the loop of build_sync_plan: b is [plan, errors,
\* parsed_milestones, parsed_issues, raised].
BuildMilestone(fs, b, entry, loaded) ==
    IF b.raised THEN b
    ELSE IF ~fs[entry.milestone_file].exists
    THEN [b EXCEPT !.errors = Append(@, Error(entry.milestone_file, "missing milestone.md"))]
    ELSE IF Uncaught(loaded) THEN [b EXCEPT !.raised = TRUE]
    ELSE IF ~loaded.ok
    THEN [b EXCEPT !.errors = Append(@, Error(entry.milestone_file, loaded.err))]
    ELSE WithIssues(b, _collect_issues_for_entry(
                           fs, entry, ClassifyMilestone(b.plan, entry, loaded.v), b.errors))

RECURSIVE BuildMilestones(_, _, _, _)
BuildMilestones(fs, entries, k, b) ==
    IF k > Len(entries) THEN b
    ELSE BuildMilestones(fs, entries, k + 1,
                         BuildMilestone(fs, b, entries[k],
                                        load_milestone_document(entries[k].milestone_file,
                                                                fs[entries[k].milestone_file])))

\* The result of build_sync_plan from the state after the milestones loop
\* and the result of _collect_root_issues.
BuildResult(b, root) ==
    [plan |-> root.plan,
     errors |-> root.errors,
     parsed_milestones |-> b.parsed_milestones,
     parsed_issues |-> b.parsed_issues + root.parsed,
     raised |-> root.raised]

WithRootIssues(fs, b) ==
    IF b.raised THEN b ELSE BuildResult(b, _collect_root_issues(fs, b.plan, b.errors))

\* (plan, parsed_milestones, parsed_issues, errors), or raised when an
\* exception has left the function.
build_sync_plan(fs, ds) ==
    WithRootIssues(fs, BuildMilestones(fs, discover_milestones(fs, ds), 1,
                                       [plan |-> SyncPlan, errors |-> <<>>,
                                        parsed_milestones |-> 0, parsed_issues |-> 0,
                                        raised |-> FALSE]))

(***************************************************************************)
(* github.py: the request payloads of GitHubClient.  A keyword argument is *)
(* a Python value; a payload is the JSON mapping that is sent.             *)
(***************************************************************************)
create_issue_payload(kw) ==
    LET p0 == DictUpdate(EmptyDict, "title", kw.title)
        p1 == PutIf(p0, kw.body # None, "body", kw.body)
        p2 == PutIf(p1, kw.labels # None, "labels", kw.labels)
        p3 == PutIf(p2, kw.assignees # None, "assignees", kw.assignees)
        p4 == PutIf(p3, kw.milestone # None, "milestone", kw.milestone)
    IN  PutIf(p4, kw.issue_type # None, "type", kw.issue_type)

update_issue_state_payload(kw) ==
    PutIf(DictUpdate(EmptyDict, "state", kw.state),
          kw.state_reason # None, "state_reason", kw.state_reason)

update_issue_payload(kw) ==
    LET p0 == PutIf(EmptyDict, kw.title # None, "title", kw.title)
        p1 == PutIf(p0, kw.body # None, "body", kw.body)
        p2 == PutIf(p1, kw.labels # None, "labels", kw.labels)
        p3 == PutIf(p2, kw.assignees # None, "assignees", kw.assignees)
        p4 == PutIf(p3, kw.milestone # None \/ kw.clear_milestone, "milestone", kw.milestone)
        p5 == PutIf(p4, kw.issue_type # None, "type", kw.issue_type)
        p6 == PutIf(p5, kw.state # None, "state", kw.state)
    IN  PutIf(p6, kw.state_reason # None /\ kw.state = PyStr("closed"),
              "state_reason", kw.state_reason)

create_milestone_payload(kw) ==
    LET p0 == DictUpdate(EmptyDict, "title", kw.title)
        p1 == PutIf(p0, kw.description # None, "description", kw.description)
        p2 == PutIf(p1, kw.due_on # None, "due_on", kw.due_on)
    IN  PutIf(p2, kw.state # None, "state", kw.state)

update_milestone_payload(kw) ==
    LET p0 == PutIf(EmptyDict, kw.title # None, "title", kw.title)
        p1 == PutIf(p0, kw.description # None, "description", kw.description)
        p2 == PutIf(p1, kw.due_on # None, "due_on", kw.due_on)
    IN  PutIf(p2, kw.state # None, "state", kw.state)

\* A remote call as the client sees it: the method, its keyword arguments,
\* the payload sent, the result ("pending" while the call is in flight,
\* then "number", "nonumber", "ok" or "raise") and the number returned.
Call(op, kw, payload) ==
    [op |-> op, kw |-> kw, payload |-> payload, result |-> "pending", returned |-> None]

(***************************************************************************)
(* sync_plan.py: the executor.                                             *)
(***************************************************************************)
MAX_WORKERS == 5

\* A resolution that looks the title up before the numeric milestone.
_resolve_milestone_number_TitleFirst(plan_, issue_path, issue_doc, milestone_title) ==
    LET effective_title == PyOr(issue_doc.milestone, milestone_title)
    IN  IF Truthy(effective_title) /\ effective_title.s \in DOMAIN plan_.milestone_numbers
        THEN [milestone_number |-> plan_.milestone_numbers[effective_title.s],
              clear_milestone |-> FALSE, errors |-> <<>>]
        ELSE [milestone_number |-> issue_doc.milestone_number,
              clear_milestone |-> issue_doc.milestone_set /\ issue_doc.milestone = None
                                    /\ issue_doc.milestone_number = None,
              errors |-> <<>>]

\* (milestone_number, clear_milestone) and the errors appended.
_resolve_milestone_number(plan_, issue_path, issue_doc, milestone_title) ==
    IF issue_doc.milestone_number # None
    THEN [milestone_number |-> issue_doc.milestone_number, clear_milestone |-> FALSE,
          errors |-> <<>>]
    ELSE IF issue_doc.milestone_set /\ issue_doc.milestone = None
    THEN [milestone_number |-> None, clear_milestone |-> TRUE, errors |-> <<>>]
    ELSE LET effective_title == PyOr(issue_doc.milestone, milestone_title)
             milestone_number ==
                IF Truthy(effective_title)
                THEN Get(plan_.milestone_numbers, effective_title.s)
                ELSE None
         IN  [milestone_number |-> milestone_number, clear_milestone |-> FALSE,
              errors |-> IF Truthy(effective_title) /\ milestone_number = None
                         THEN <<Error(issue_path, "milestone has no number.")>>
                         ELSE <<>>]

\* milestone_doc.state.value if milestone_doc.state else None
StateValue(state) == IF Truthy(state) THEN state ELSE None

create_milestone_kwargs(milestone_doc) ==
    [title |-> PyStr(milestone_doc.title),
     description |-> milestone_doc.description,
     due_on |-> milestone_doc.due_on,
     state |-> StateValue(milestone_doc.state)]

update_milestone_kwargs(milestone_doc) ==
    [number |-> milestone_doc.number,
     title |-> PyStr(milestone_doc.title),
     description |-> milestone_doc.description,
     due_on |-> milestone_doc.due_on,
     state |-> StateValue(milestone_doc.state)]

\* A create_issue call that leaves the resolved milestone out.
create_issue_kwargs_NoMilestone(issue_doc, milestone_number) ==
    [title |-> PyStr(issue_doc.title),
     body |-> PyOr(PyStr(issue_doc.body), None),
     labels |-> IF issue_doc.labels_set THEN PyList(issue_doc.labels) ELSE None,
     assignees |-> IF issue_doc.assignees_set THEN PyList(issue_doc.assignees) ELSE None,
     milestone |-> None,
     issue_type |-> issue_doc.issue_type]

create_issue_kwargs(issue_doc, milestone_number) ==
    [title |-> PyStr(issue_doc.title),
     body |-> PyOr(PyStr(issue_doc.body), None),
     labels |-> IF issue_doc.labels_set THEN PyList(issue_doc.labels) ELSE None,
     assignees |-> IF issue_doc.assignees_set THEN PyList(issue_doc.assignees) ELSE None,
     milestone |-> milestone_number,
     issue_type |-> issue_doc.issue_type]

update_issue_state_kwargs(issue_doc, issue_number) ==
    [number |-> issue_number,
     state |-> issue_doc.state,
     state_reason |-> issue_doc.state_reason]

\* An update_issue call that sends the lists only when they are not empty.
update_issue_kwargs_NonEmptyOnly(issue_doc, milestone_number, clear_milestone) ==
    [number |-> issue_doc.number,
     title |-> PyStr(issue_doc.title),
     body |-> PyOr(PyStr(issue_doc.body), None),
     labels |-> IF issue_doc.labels # <<>> THEN PyList(issue_doc.labels) ELSE None,
     assignees |-> IF issue_doc.assignees # <<>> THEN PyList(issue_doc.assignees) ELSE None,
     milestone |-> milestone_number,
     clear_milestone |-> clear_milestone,
     issue_type |-> issue_doc.issue_type,
     state |-> issue_doc.state,
     state_reason |-> issue_doc.state_reason]

update_issue_kwargs(issue_doc, milestone_number, clear_milestone) ==
    [number |-> issue_doc.number,
     title |-> PyStr(issue_doc.title),
     body |-> PyOr(PyStr(issue_doc.body), None),
     labels |-> IF issue_doc.labels_set THEN PyList(issue_doc.labels) ELSE None,
     assignees |-> IF issue_doc.assignees_set THEN PyList(issue_doc.assignees) ELSE None,
     milestone |-> milestone_number,
     clear_milestone |-> clear_milestone,
     issue_type |-> issue_doc.issue_type,
     state |-> issue_doc.state,
     state_reason |-> issue_doc.state_reason]

(***************************************************************************)
(* importer.py: bringing the remote issues into the local tree.  A remote  *)
(* issue is the record of the keys the importer reads.  The import works   *)
(* on s: the tree (files, dirs), the four counters of ImportResult, and    *)
(* raised, set when an exception has left import_existing_issues.  dirs    *)
(* holds the milestone directories and their issues directories.           *)
(***************************************************************************)
\* str.strip() on the strings the model uses.
Strip(s) == IF s = "Body\n" THEN "Body" ELSE IF s = " " THEN "" ELSE s

\* _slugify on the titles the model uses: lower case, the letters and
\* digits kept, "milestone" for an empty result.
_slugify(value) ==
    CASE value = "M1" -> "m1"
      [] value = "M2" -> "m2"
      [] value = "A" -> "a"
      [] value = "B" -> "b"
      [] OTHER -> "milestone"

\* _format_date of an absent created_at.
_format_date(value) == "00000000"

\* A dict as the sequence of its items in insertion order.
DictHas(d, key) == \E k \in 1..Len(d) : d[k].key = key

DictGet(d, key) == d[CHOOSE k \in 1..Len(d) : d[k].key = key].path

\* dict.setdefault(key, path)
SetDefault(d, key, path) ==
    IF DictHas(d, key) THEN d ELSE Append(d, [key |-> key, path |-> path])

RECURSIVE EntryIssueFiles(_, _)
EntryIssueFiles(entries, k) ==
    IF k > Len(entries) THEN <<>>
    ELSE entries[k].issue_files \o EntryIssueFiles(entries, k + 1)

\* The issue files in the order in which both collectors visit them.
ExistingFiles(fs, ds) ==
    discover_root_issues(fs) \o EntryIssueFiles(discover_milestones(fs, ds), 1)

_content_key(title, body) == <<Strip(title), Strip(PyOr(body, PyStr("")).s)>>

\* A collector that records no number.
_try_add_issue_number_NothingAdded(issue_path, loaded, numbers) ==
    IF Uncaught(loaded) THEN [numbers EXCEPT !.raised = TRUE] ELSE numbers

\* numbers is [d, raised]: the dict, and whether load_issue_document raised
\* an exception that `except DocumentError` does not catch.
_try_add_issue_number(issue_path, loaded, numbers) ==
    IF numbers.raised THEN numbers
    ELSE IF Uncaught(loaded) THEN [numbers EXCEPT !.raised = TRUE]
    ELSE IF ~loaded.ok THEN numbers
    ELSE IF loaded.v.number # None
    THEN [numbers EXCEPT !.d = SetDefault(@, loaded.v.number, issue_path)]
    ELSE numbers

_try_add_issue_content(issue_path, loaded, entries) ==
    IF entries.raised THEN entries
    ELSE IF Uncaught(loaded) THEN [entries EXCEPT !.raised = TRUE]
    ELSE IF ~loaded.ok THEN entries
    ELSE IF loaded.v.number # None THEN entries
    ELSE [entries EXCEPT !.d = SetDefault(@, _content_key(loaded.v.title, PyStr(loaded.v.body)),
                                          issue_path)]

RECURSIVE CollectNumbers(_, _, _, _)
CollectNumbers(paths, k, fs, numbers) ==
    IF k > Len(paths) THEN numbers
    ELSE CollectNumbers(paths, k + 1, fs,
            _try_add_issue_number(paths[k], load_issue_document(paths[k], fs[paths[k]]),
                                  numbers))

RECURSIVE CollectContent(_, _, _, _)
CollectContent(paths, k, fs, entries) ==
    IF k > Len(paths) THEN entries
    ELSE CollectContent(paths, k + 1, fs,
            _try_add_issue_content(paths[k], load_issue_document(paths[k], fs[paths[k]]),
                                   entries))

_collect_existing_issues(fs, ds) ==
    CollectNumbers(ExistingFiles(fs, ds), 1, fs, [d |-> <<>>, raised |-> FALSE])

_collect_existing_by_content(fs, ds) ==
    CollectContent(ExistingFiles(fs, ds), 1, fs, [d |-> <<>>, raised |-> FALSE])

\* _milestone_document_from_api and _write_milestone: the file written.
_write_milestone(milestone) ==
    LET m0 == ("title" :> PyStr(Strip(milestone.title))) @@ ("number" :> milestone.number)
        m1 == PutIf(m0, Truthy(milestone.description), "description", milestone.description)
        m2 == PutIf(m1, Truthy(milestone.due_on), "due_on", milestone.due_on)
    IN  render_markdown(PutIf(m2, Truthy(milestone.state), "state", milestone.state), "")

\* No milestone directory: milestone_dir is None.
NoDir == ""

\* The result is [s, dir, created]: the tree after the call, the issues
\* directory returned (NoDir for None) and the flag returned.
_ensure_milestone_dir(s, milestone, dry_run) ==
    IF milestone.title = "" THEN [s |-> s, dir |-> NoDir, created |-> FALSE]
    ELSE LET milestone_dir == "milestones/" \o _slugify(milestone.title)
             milestone_path == Path(milestone_dir, MILESTONE_FILENAME)
             issues_dir == IssuesDirOf(milestone_dir)
             no_dir == milestone_dir \notin s.dirs
             no_file == ~s.files[milestone_path].exists
         IN  [s |-> IF dry_run THEN s
                    ELSE [s EXCEPT !.dirs = @ \cup {milestone_dir, issues_dir},
                                   !.files[milestone_path] =
                                        IF no_file THEN _write_milestone(milestone) ELSE @],
              dir |-> issues_dir,
              created |-> no_dir \/ no_file]

\* A move that leaves the file at its old path as well.
_maybe_move_issue_Copies(s, existing_path, milestone_dir, dry_run) ==
    IF s.raised \/ milestone_dir = NoDir THEN [s |-> s, moved |-> FALSE]
    ELSE IF \/ existing_path = Path(milestone_dir, existing_path.name)
            \/ s.files[Path(milestone_dir, existing_path.name)].exists
    THEN [s |-> s, moved |-> FALSE]
    ELSE IF dry_run THEN [s |-> s, moved |-> TRUE]
    ELSE [s |-> [s EXCEPT !.dirs = @ \cup {milestone_dir},
                          !.files[Path(milestone_dir, existing_path.name)] =
                                s.files[existing_path]],
          moved |-> TRUE]

\* The result is [s, moved].  Path.rename of a file that is not there raises
\* FileNotFoundError.
_maybe_move_issue(s, existing_path, milestone_dir, dry_run) ==
    IF s.raised \/ milestone_dir = NoDir THEN [s |-> s, moved |-> FALSE]
    ELSE IF \/ existing_path = Path(milestone_dir, existing_path.name)
            \/ s.files[Path(milestone_dir, existing_path.name)].exists
    THEN [s |-> s, moved |-> FALSE]
    ELSE IF dry_run THEN [s |-> s, moved |-> TRUE]
    ELSE IF ~s.files[existing_path].exists
    THEN [s |-> [s EXCEPT !.dirs = @ \cup {milestone_dir}, !.raised = TRUE], moved |-> FALSE]
    ELSE [s |-> [s EXCEPT !.dirs = @ \cup {milestone_dir},
                          !.files[Path(milestone_dir, existing_path.name)] =
                                s.files[existing_path],
                          !.files[existing_path] = NoFile],
          moved |-> TRUE]

\* update_front_matter without cached_metadata: the file is read, and the
\* read or the parse may raise.
update_front_matter_read(s, path, key, value) ==
    IF ~s.files[path].exists \/ ~_parse_front_matter(s.files[path]).ok
    THEN [s EXCEPT !.raised = TRUE]
    ELSE [s EXCEPT !.files[path] =
            render_markdown(DictUpdate(_parse_front_matter(s.files[path]).v.metadata, key, value),
                            _parse_front_matter(s.files[path]).v.body)]

RECURSIVE Candidate(_, _, _, _)
Candidate(fs, directory, base_name, index) ==
    IF ~fs[Path(directory, base_name \o "-" \o ToString(index) \o ".md")].exists
    THEN Path(directory, base_name \o "-" \o ToString(index) \o ".md")
    ELSE Candidate(fs, directory, base_name, index + 1)

\* A path that is the base name, taken or not.
_issue_path_for_import_NoSuffix(fs, directory, issue) ==
    Path(directory, _format_date(issue.created_at) \o "-" \o _slugify(Strip(issue.title))
                        \o ".md")

_issue_path_for_import(fs, directory, issue) ==
    LET base_name == _format_date(issue.created_at) \o "-" \o _slugify(Strip(issue.title))
        path == Path(directory, base_name \o ".md")
        with_number == Path(directory, base_name \o "-" \o ToString(issue.number.n) \o ".md")
    IN  IF ~fs[path].exists THEN path
        ELSE IF Truthy(issue.number) /\ ~fs[with_number].exists THEN with_number
        ELSE Candidate(fs, directory, base_name, 2)

\* _issue_document_from_api and _write_issue: the file written.
_write_issue(issue, milestone_title) ==
    LET m0 == ("title" :> PyStr(Strip(issue.title))) @@ ("number" :> issue.number)
        m1 == PutIf(m0, issue.labels # <<>>, "labels", PyList(issue.labels))
        m2 == PutIf(m1, issue.assignees # <<>>, "assignees", PyList(issue.assignees))
        m3 == PutIf(m2, milestone_title # None, "milestone", milestone_title)
        m4 == PutIf(m3, Truthy(issue.state), "state", issue.state)
        m5 == PutIf(m4, Truthy(issue.state_reason), "state_reason", issue.state_reason)
    IN  render_markdown(m5, Strip(PyOr(issue.body, PyStr("")).s))

\* A count that takes every matched issue as moved.
CountMove_AlwaysMoved(m) ==
    IF m.s.raised THEN m.s ELSE [m.s EXCEPT !.issues_moved = @ + 1]

\* Lines 64-70 and 77-81: the result of _maybe_move_issue is counted.
CountMove(m) ==
    IF m.s.raised THEN m.s
    ELSE IF m.moved THEN [m.s EXCEPT !.issues_moved = @ + 1]
    ELSE [m.s EXCEPT !.issues_skipped = @ + 1]

\* A creation that writes the file in a dry run as well.
CreateIssueFile_Unguarded(s, milestone_dir, issue, issue_path, dry_run) ==
    IF s.files[issue_path].exists THEN [s EXCEPT !.issues_skipped = @ + 1]
    ELSE [s EXCEPT !.files[issue_path] =
                        _write_issue(issue, IF issue.milestone = None THEN None
                                            ELSE PyStr(issue.milestone.title)),
                   !.issues_created = @ + 1]

\* Lines 83-92: the issue gets a new file.
CreateIssueFile(s, milestone_dir, issue, issue_path, dry_run) ==
    IF s.files[issue_path].exists THEN [s EXCEPT !.issues_skipped = @ + 1]
    ELSE IF dry_run THEN [s EXCEPT !.issues_created = @ + 1]
    ELSE [s EXCEPT !.files[issue_path] =
                        _write_issue(issue, IF issue.milestone = None THEN None
                                            ELSE PyStr(issue.milestone.title)),
                   !.dirs = @ \cup (IF milestone_dir = NoDir THEN {} ELSE {milestone_dir}),
                   !.issues_created = @ + 1]

\* Lines 64-92, after the milestone directory has been ensured (e).
ImportNumbered(e, issue, numbers, entries, dry_run) ==
    IF DictHas(numbers, issue.number)
    THEN CountMove(_maybe_move_issue(e.s, DictGet(numbers, issue.number), e.dir, dry_run))
    ELSE IF /\ issue.title # ""
            /\ issue.body # None
            /\ DictHas(entries, _content_key(issue.title, issue.body))
    THEN CountMove(_maybe_move_issue(
            IF dry_run THEN e.s
            ELSE update_front_matter_read(
                    e.s, DictGet(entries, _content_key(issue.title, issue.body)),
                    "number", issue.number),
            DictGet(entries, _content_key(issue.title, issue.body)), e.dir, dry_run))
    ELSE CreateIssueFile(e.s, e.dir, issue,
            _issue_path_for_import(e.s.files,
                                   IF e.dir # NoDir THEN e.dir ELSE ROOT_ISSUES_DIR, issue),
            dry_run)

\* Lines 54-62: the milestone directory of the issue, counted when created.
EnsureMilestone(s, issue, dry_run) ==
    IF issue.milestone = None \/ issue.milestone.title = ""
    THEN [s |-> s, dir |-> NoDir, created |-> FALSE]
    ELSE LET e == _ensure_milestone_dir(s, issue.milestone, dry_run)
         IN  [e EXCEPT !.s.milestones_created = @ + (IF e.created THEN 1 ELSE 0)]

\* A loop that ensures the milestone of a pull request before it skips it.
ImportIssue_PullRequestMilestone(s, issue, numbers, entries, dry_run) ==
    IF s.raised THEN s
    ELSE IF issue.pull_request THEN EnsureMilestone(s, issue, dry_run).s
    ELSE IF ~Truthy(issue.number) THEN [s EXCEPT !.issues_skipped = @ + 1]
    ELSE ImportNumbered(EnsureMilestone(s, issue, dry_run), issue, numbers, entries, dry_run)

\* One turn of the loop over the remote issues.
ImportIssue(s, issue, numbers, entries, dry_run) ==
    IF s.raised \/ issue.pull_request THEN s
    ELSE IF ~Truthy(issue.number) THEN [s EXCEPT !.issues_skipped = @ + 1]
    ELSE ImportNumbered(EnsureMilestone(s, issue, dry_run), issue, numbers, entries, dry_run)

RECURSIVE ImportLoop(_, _, _, _, _, _)
ImportLoop(s, issues, k, numbers, entries, dry_run) ==
    IF k > Len(issues) THEN s
    ELSE ImportLoop(ImportIssue(s, issues[k], numbers, entries, dry_run),
                    issues, k + 1, numbers, entries, dry_run)

ImportResult(fs, ds) ==
    [files |-> fs, dirs |-> ds, issues_created |-> 0, issues_moved |-> 0,
     milestones_created |-> 0, issues_skipped |-> 0, raised |-> FALSE]

\* list_raises: client.list_issues raises GitHubAPIError.
import_existing_issues(fs, ds, issues, list_raises, dry_run) ==
    IF \/ list_raises
       \/ _collect_existing_issues(fs, ds).raised
       \/ _collect_existing_by_content(fs, ds).raised
    THEN [ImportResult(fs, ds) EXCEPT !.raised = TRUE]
    ELSE ImportLoop(ImportResult(fs, ds), issues, 1, _collect_existing_issues(fs, ds).d,
                    _collect_existing_by_content(fs, ds).d, dry_run)

(***************************************************************************)
(* github.py: one logical request of the client.  A response is its status *)
(* and what the client and the retry adapter of the session read of it:    *)
(* the headers X-RateLimit-Remaining, X-RateLimit-Reset, Retry-After and    *)
(* Link (with the name as the server spelled it), the message of an error  *)
(* body, and the body of a success.                                        *)
(***************************************************************************)
Response(status, remaining, reset, retry_after) ==
    [status |-> status, remaining |-> remaining, reset |-> reset,
     retry_after |-> retry_after,
     message |-> IF status = 401 THEN PyStr("Bad credentials") ELSE None,
     link_name |-> "Link", link |-> None, body |-> [t |-> "dict"]]

\* requests.Response.ok
ResponseOk(response) == response.status < 400

\* time.time() when _handle_rate_limit runs.
Now == 100

\* The longest wait that _handle_rate_limit returns.
MaxWait == 60

Min(a, b) == IF a <= b THEN a ELSE b

\* The result is [raised, wait_seconds]: the rate-limit error is raised, or
\* the seconds to wait (None when the response is not rate-limited).
_handle_rate_limit(response) ==
    IF response.status = 403
    THEN IF response.remaining = PyStr("0")
         THEN IF /\ response.reset # None
                 /\ 0 < response.reset.n - Now + 1
                 /\ response.reset.n - Now + 1 <= MaxWait
              THEN [raised |-> FALSE, wait_seconds |-> PyInt(response.reset.n - Now + 1)]
              ELSE [raised |-> TRUE, wait_seconds |-> None]
         ELSE [raised |-> FALSE, wait_seconds |-> None]
    ELSE IF response.status = 429
    THEN [raised |-> FALSE,
          wait_seconds |-> PyInt(Min(IF response.retry_after = None THEN MaxWait
                                     ELSE response.retry_after.n, MaxWait))]
    ELSE [raised |-> FALSE, wait_seconds |-> None]

GitHubAPIError(status_code, message) == [status_code |-> status_code, message |-> message]

\* The error that _request_with_headers raises for a response that is not ok.
ErrorOf(response) ==
    GitHubAPIError(response.status,
                   IF Truthy(response.message) THEN response.message.s ELSE "unknown error")

\* _create_session: Retry(total=max_retries, status_forcelist=[500, 502,
\* 503, 504], allowed_methods=["GET"], raise_on_status=False), mounted on
\* the session.  The adapter also retries a response that has a Retry-After
\* header and one of the statuses for which urllib3 respects that header.
max_retries == 3

status_forcelist == {500, 502, 503, 504}

\* A Retry that allows every method.
allowed_methods_All == {"GET", "POST", "PATCH"}

allowed_methods == {"GET"}

RETRY_AFTER_STATUS_CODES == {413, 429, 503}

\* Retry.is_retry, with `total` the retries that are left.
is_retry(method, response, total) ==
    /\ method \in allowed_methods
    /\ \/ response.status \in status_forcelist
       \/ /\ total # 0
          /\ response.retry_after # None
          /\ response.status \in RETRY_AFTER_STATUS_CODES

\* The adapter sends the request again instead of returning the response:
\* the response is one to retry and the retries are not exhausted.
AdapterRetries(method, response, total) == is_retry(method, response, total) /\ total - 1 >= 0

\* _has_next_link: the header value is the list of its parts, each the rel
\* that it names.
_has_next_link(link_header) ==
    /\ link_header # None
    /\ \E k \in 1..Len(link_header.l) : link_header.l[k] = "next"

\* headers = dict(response.headers); headers.get("Link"): the plain dict
\* has the name as the server spelled it.
LinkOf(response) == IF response.link_name = "Link" THEN response.link ELSE None

\* No text: no document is read and written back.
NoText == [at |-> "none", raw |-> None, doc |-> None, prev_raw |-> None, prev_doc |-> None, round |-> 0]

\* No request: the client is not used.
NoRequest ==
    [op |-> "none", method |-> "GET", pc |-> "idle", once |-> 0, sent |-> 0, total |-> 0,
     response |-> None, slept |-> <<>>, adapter_slept |-> {}, error |-> None, pages |-> <<>>, page |-> 1,
     issues |-> <<>>, requested |-> <<>>]

(***************************************************************************)
(* The state of one sync run.                                              *)
(*   files, dirs   the local tree: the file at each path, the milestone    *)
(*                 directories that exist                                  *)
(*   pc            where sync_command / apply_sync_plan (the main thread)  *)
(*                 stands                                                  *)
(*   plan, parsed, errors   what build_sync_plan returned; errors is the   *)
(*                 list the executor goes on appending to                  *)
(*   ms_i          the index of the sequential loop over                   *)
(*                 plan.milestones_to_create                               *)
(*   workers       one entry per item handed to _run_parallel in the       *)
(*                 current phase: the position of the function run on it   *)
(*   errors_lock   whether the phase's Lock is held                        *)
(*   calls         per path, the remote calls made for its document        *)
(*   run, prev_calls   the number of the sync run, the calls of the        *)
(*                 previous run                                            *)
(*   cmd           the invocation: its options, the layout, credentials    *)
(*                 and remote issue list it finds, and what it printed     *)
(*   http          one request of the GitHub client: see github.py below   *)
(*   text          the text of one document that is read and written back  *)
(***************************************************************************)
VARIABLES files, dirs, pc, plan, parsed, errors, ms_i, workers, errors_lock,
          calls, run, prev_calls, cmd, http, text

vars == <<files, dirs, pc, plan, parsed, errors, ms_i, workers, errors_lock,
          calls, run, prev_calls, cmd, http, text>>

NoCalls == [p \in AllPaths |-> <<>>]

ParallelPhases == {"update_milestones", "create_issues", "update_issues"}

\* The items _run_parallel is given in a phase.
Items(phase) ==
    CASE phase = "update_milestones" -> plan.milestones_to_update
      [] phase = "create_issues" -> plan.issues_to_create
      [] phase = "update_issues" -> plan.issues_to_update
      [] OTHER -> <<>>

\* executor.submit(func, item) for every item: all futures pending.
Submit(items) ==
    [i \in 1..Len(items) |-> [st |-> "pending", number |-> None, errs |-> <<>>]]

\* A future is finished: its function returned ("done", "skipped", "failed")
\* or raised ("raised": not yet seen by as_completed; "main_locked": being
\* reported; "failed_exc": reported).
Finished == {"done", "skipped", "failed", "raised", "main_locked", "failed_exc"}

Collected == {"done", "skipped", "failed", "failed_exc"}

\* A pool thread is busy with the item.
Busy == {"calling", "written", "closing", "report", "locked"}

\* A _run_parallel that returns once the items are submitted.
AllCollected_NoWait(ws) == \A i \in DOMAIN ws : ws[i].st \in Collected \cup Busy \cup {"raised", "pending"}

\* _run_parallel returns: as_completed has yielded every future and the
\* executor's with-block has joined its threads.
AllCollected(ws) == \A i \in DOMAIN ws : ws[i].st \in Collected

\* An executor that starts a thread for every item.
CanStart_Unbounded(ws) == TRUE

\* A pool thread is free to take the next work item.
CanStart(ws) == Cardinality({i \in DOMAIN ws : ws[i].st \in Busy}) < MAX_WORKERS

LogCall(path, call) == [calls EXCEPT ![path] = Append(@, call)]

\* The result of the last call made for the path.
SetResult(path, result) ==
    [calls EXCEPT ![path] = [@ EXCEPT ![Len(calls[path])].result = result]]

SetReturned(path, n) ==
    [calls EXCEPT ![path] = [@ EXCEPT ![Len(calls[path])].result = "number",
                                      ![Len(calls[path])].returned = PyInt(n)]]

\* What a remote create may answer: a number, a body without number, an error.
MilestoneNumbers == {7, 8}

IssueNumbers == {21, 22}

(***************************************************************************)
(* sync_command up to its call of apply_sync_plan.                         *)
(***************************************************************************)
\* The lists of the plan are not all empty.
AnyWork(plan_) ==
    Len(plan_.milestones_to_create) + Len(plan_.issues_to_create)
        + Len(plan_.milestones_to_update) + Len(plan_.issues_to_update) > 0

\* The invocation `planhub sync` in an initialised repository with
\* credentials: no option, no import, nothing printed yet.
PlainSync ==
    [dry_run |-> FALSE, import_existing |-> FALSE, layout |-> TRUE, auth |-> "ok",
     remote |-> <<>>, list_raises |-> FALSE, imported |-> None, report |-> None,
     prev_report |-> None]

\* A report that prints the number of parsed issues as the issues to create.
DryRunReport_FoundAsCreate(b) ==
    [milestones_to_create |-> Len(b.plan.milestones_to_create),
     issues_to_create |-> b.parsed_issues,
     milestones_to_update |-> Len(b.plan.milestones_to_update),
     issues_to_update |-> Len(b.plan.issues_to_update),
     parsed_milestones |-> b.parsed_milestones,
     parsed_issues |-> b.parsed_issues]

\* The counts that the dry run prints.
DryRunReport(b) ==
    [milestones_to_create |-> Len(b.plan.milestones_to_create),
     issues_to_create |-> Len(b.plan.issues_to_create),
     milestones_to_update |-> Len(b.plan.milestones_to_update),
     issues_to_update |-> Len(b.plan.issues_to_update),
     parsed_milestones |-> b.parsed_milestones,
     parsed_issues |-> b.parsed_issues]

\* sync_command without the exit on parse errors.
sync_command_AppliesDespiteErrors ==
    /\ pc = "start"
    /\ \E b \in {build_sync_plan(files, dirs)} :
           IF b.raised
           THEN /\ pc' = "raised"
                /\ UNCHANGED <<plan, errors, parsed, cmd>>
           ELSE /\ plan' = b.plan
                /\ errors' = b.errors
                /\ parsed' = [milestones |-> b.parsed_milestones, issues |-> b.parsed_issues]
                /\ pc' = IF cmd.dry_run THEN "exit0"
                         ELSE IF AnyWork(b.plan)
                         THEN (IF cmd.auth = "ok" THEN "create_milestones" ELSE "exit1")
                         ELSE "exit0"
                /\ cmd' = IF b.errors = <<>> /\ cmd.dry_run
                          THEN [cmd EXCEPT !.report = DryRunReport(b)]
                          ELSE cmd
    /\ ms_i' = 1
    /\ UNCHANGED <<files, dirs, workers, errors_lock, calls, run, prev_calls, http, text>>

\* sync_command from build_sync_plan to the call of apply_sync_plan: parse
\* errors end it with code 1, a dry run prints the counts and returns, and
\* a plan with work needs a client.
sync_command ==
    /\ pc = "start"
    /\ \E b \in {build_sync_plan(files, dirs)} :
           IF b.raised
           THEN /\ pc' = "raised"
                /\ UNCHANGED <<plan, errors, parsed, cmd>>
           ELSE /\ plan' = b.plan
                /\ errors' = b.errors
                /\ parsed' = [milestones |-> b.parsed_milestones, issues |-> b.parsed_issues]
                /\ pc' = IF b.errors # <<>> THEN "exit1"
                         ELSE IF cmd.dry_run THEN "exit0"
                         ELSE IF AnyWork(b.plan)
                         THEN (IF cmd.auth = "ok" THEN "create_milestones" ELSE "exit1")
                         ELSE "exit0"
                /\ cmd' = IF b.errors = <<>> /\ cmd.dry_run
                          THEN [cmd EXCEPT !.report = DryRunReport(b)]
                          ELSE cmd
    /\ ms_i' = 1
    /\ UNCHANGED <<files, dirs, workers, errors_lock, calls, run, prev_calls, http, text>>

(***************************************************************************)
(* _create_missing_milestones: sequential, on the main thread.             *)
(***************************************************************************)
create_milestone_call ==
    /\ pc = "create_milestones"
    /\ ms_i <= Len(plan.milestones_to_create)
    /\ LET item == plan.milestones_to_create[ms_i]
           kw == create_milestone_kwargs(item.doc)
       IN  calls' = LogCall(item.path, Call("create_milestone", kw, create_milestone_payload(kw)))
    /\ pc' = "create_milestone_wait"
    /\ UNCHANGED <<files, dirs, plan, parsed, errors, ms_i, workers, errors_lock, run, prev_calls, cmd, http, text>>

\* The call returned a mapping with a number: write it back, then record it
\* under the milestone's title.
create_milestone_number(n) ==
    /\ pc = "create_milestone_wait"
    /\ LET item == plan.milestones_to_create[ms_i]
       IN  /\ calls' = SetReturned(item.path, n)
           /\ files' = [files EXCEPT ![item.path] =
                            update_front_matter("number", PyInt(n),
                                                milestone_document_to_metadata(item.doc),
                                                item.doc.body)]
           /\ plan' = [plan EXCEPT !.milestone_numbers = DictUpdate(@, item.doc.title, PyInt(n))]
    /\ ms_i' = ms_i + 1
    /\ pc' = "create_milestones"
    /\ UNCHANGED <<dirs, parsed, errors, workers, errors_lock, run, prev_calls, cmd, http, text>>

\* The call returned a mapping without a number.
create_milestone_no_number ==
    /\ pc = "create_milestone_wait"
    /\ LET item == plan.milestones_to_create[ms_i]
       IN  /\ calls' = SetResult(item.path, "nonumber")
           /\ errors' = Append(errors, Error(item.path, "GitHub did not return a number."))
    /\ ms_i' = ms_i + 1
    /\ pc' = "create_milestones"
    /\ UNCHANGED <<files, dirs, plan, parsed, workers, errors_lock, run, prev_calls, cmd, http, text>>

\* The call raised: nothing catches the exception between the loop and
\* sync_command, so the command ends with it.
create_milestone_raise ==
    /\ pc = "create_milestone_wait"
    /\ calls' = SetResult(plan.milestones_to_create[ms_i].path, "raise")
    /\ pc' = "crashed"
    /\ UNCHANGED <<files, dirs, plan, parsed, errors, ms_i, workers, errors_lock, run, prev_calls, cmd, http, text>>

\* The loop is over: apply_sync_plan goes on to _update_existing_milestones.
create_milestones_end ==
    /\ pc = "create_milestones"
    /\ ms_i > Len(plan.milestones_to_create)
    /\ pc' = "update_milestones"
    /\ workers' = Submit(plan.milestones_to_update)
    /\ UNCHANGED <<files, dirs, plan, parsed, errors, ms_i, errors_lock, calls, run, prev_calls, cmd, http, text>>

(***************************************************************************)
(* The functions _run_parallel runs on the pool threads.  A step of a      *)
(* worker is the code up to its next remote call, lock or return.          *)
(***************************************************************************)
SetWorker(i, st, number, errs) ==
    [workers EXCEPT ![i] = [st |-> st, number |-> number, errs |-> errs]]

\* update_single_milestone up to client.update_milestone.
update_single_milestone(i) ==
    /\ pc = "update_milestones"
    /\ workers[i].st = "pending"
    /\ CanStart(workers)
    /\ LET item == plan.milestones_to_update[i]
           kw == update_milestone_kwargs(item.doc)
       IN  IF item.doc.number = None
           THEN /\ workers' = SetWorker(i, "report", None,
                                        <<Error(item.path, "missing milestone number.")>>)
                /\ calls' = calls
           ELSE /\ workers' = SetWorker(i, "calling", None, <<>>)
                /\ calls' = LogCall(item.path,
                                    Call("update_milestone", kw, update_milestone_payload(kw)))
    /\ UNCHANGED <<files, dirs, pc, plan, parsed, errors, ms_i, errors_lock, run, prev_calls, cmd, http, text>>

\* create_single_issue up to client.create_issue.
create_single_issue(i) ==
    /\ pc = "create_issues"
    /\ workers[i].st = "pending"
    /\ CanStart(workers)
    /\ LET item == plan.issues_to_create[i]
           r == _resolve_milestone_number(plan, item.path, item.doc, item.milestone_title)
           milestone_number == IF r.clear_milestone THEN None ELSE r.milestone_number
           kw == create_issue_kwargs(item.doc, milestone_number)
       IN  IF r.errors # <<>>
           THEN /\ workers' = SetWorker(i, "report", None, r.errors)
                /\ calls' = calls
           ELSE IF Truthy(PyOr(item.doc.milestone, item.milestone_title))
                   /\ milestone_number = None
           THEN /\ workers' = SetWorker(i, "skipped", None, <<>>)
                /\ calls' = calls
           ELSE /\ workers' = SetWorker(i, "calling", None, <<>>)
                /\ calls' = LogCall(item.path, Call("create_issue", kw, create_issue_payload(kw)))
    /\ UNCHANGED <<files, dirs, pc, plan, parsed, errors, ms_i, errors_lock, run, prev_calls, cmd, http, text>>

\* A create_single_issue that makes the state call whatever the state is.
create_issue_number_AlwaysCloses(i, n) ==
    /\ pc = "create_issues"
    /\ workers[i].st = "calling"
    /\ LET item == plan.issues_to_create[i]
       IN  /\ calls' = SetReturned(item.path, n)
           /\ files' = [files EXCEPT ![item.path] =
                            update_front_matter("number", PyInt(n),
                                                issue_document_to_metadata(item.doc),
                                                item.doc.body)]
           /\ workers' = SetWorker(i, "written", PyInt(n), <<>>)
    /\ UNCHANGED <<dirs, pc, plan, parsed, errors, ms_i, errors_lock, run, prev_calls, cmd, http, text>>

\* A create_single_issue that writes the number to the file of the first
\* entry of the list.
create_issue_number_WritesFirst(i, n) ==
    /\ pc = "create_issues"
    /\ workers[i].st = "calling"
    /\ LET item == plan.issues_to_create[i]
       IN  /\ calls' = SetReturned(item.path, n)
           /\ files' = [files EXCEPT ![plan.issues_to_create[1].path] =
                            update_front_matter("number", PyInt(n),
                                                issue_document_to_metadata(item.doc),
                                                item.doc.body)]
           /\ workers' = SetWorker(i, IF item.doc.state = PyStr("closed")
                                      THEN "written" ELSE "done", PyInt(n), <<>>)
    /\ UNCHANGED <<dirs, pc, plan, parsed, errors, ms_i, errors_lock, run, prev_calls, cmd, http, text>>

\* client.create_issue returned a number: the number is written back; a
\* closed issue still needs its state call.
create_issue_number(i, n) ==
    /\ pc = "create_issues"
    /\ workers[i].st = "calling"
    /\ LET item == plan.issues_to_create[i]
       IN  /\ calls' = SetReturned(item.path, n)
           /\ files' = [files EXCEPT ![item.path] =
                            update_front_matter("number", PyInt(n),
                                                issue_document_to_metadata(item.doc),
                                                item.doc.body)]
           /\ workers' = SetWorker(i, IF item.doc.state = PyStr("closed")
                                      THEN "written" ELSE "done", PyInt(n), <<>>)
    /\ UNCHANGED <<dirs, pc, plan, parsed, errors, ms_i, errors_lock, run, prev_calls, cmd, http, text>>

\* A create_single_issue that writes back whatever the call returned under
\* the key number.
create_issue_no_number_Written(i) ==
    /\ pc = "create_issues"
    /\ workers[i].st = "calling"
    /\ LET item == plan.issues_to_create[i]
       IN  /\ calls' = SetResult(item.path, "nonumber")
           /\ files' = [files EXCEPT ![item.path] =
                            update_front_matter("number", None,
                                                issue_document_to_metadata(item.doc),
                                                item.doc.body)]
           /\ workers' = SetWorker(i, "report", None,
                                   <<Error(item.path, "GitHub did not return a number.")>>)
    /\ UNCHANGED <<dirs, pc, plan, parsed, errors, ms_i, errors_lock, run, prev_calls, cmd, http, text>>

\* client.create_issue returned a mapping without a number.
create_issue_no_number(i) ==
    /\ pc = "create_issues"
    /\ workers[i].st = "calling"
    /\ LET item == plan.issues_to_create[i]
       IN  /\ calls' = SetResult(item.path, "nonumber")
           /\ workers' = SetWorker(i, "report", None,
                                   <<Error(item.path, "GitHub did not return a number.")>>)
    /\ UNCHANGED <<files, dirs, pc, plan, parsed, errors, ms_i, errors_lock, run, prev_calls, cmd, http, text>>

\* create_single_issue: client.update_issue_state for a closed issue.
close_created_issue(i) ==
    /\ pc = "create_issues"
    /\ workers[i].st = "written"
    /\ LET item == plan.issues_to_create[i]
           kw == update_issue_state_kwargs(item.doc, workers[i].number)
       IN  calls' = LogCall(item.path,
                            Call("update_issue_state", kw, update_issue_state_payload(kw)))
    /\ workers' = [workers EXCEPT ![i].st = "closing"]
    /\ UNCHANGED <<files, dirs, pc, plan, parsed, errors, ms_i, errors_lock, run, prev_calls, cmd, http, text>>

\* update_single_issue up to client.update_issue.
update_single_issue(i) ==
    /\ pc = "update_issues"
    /\ workers[i].st = "pending"
    /\ CanStart(workers)
    /\ LET item == plan.issues_to_update[i]
           r == _resolve_milestone_number(plan, item.path, item.doc, item.milestone_title)
           kw == update_issue_kwargs(item.doc, r.milestone_number, r.clear_milestone)
       IN  IF item.doc.number = None
           THEN /\ workers' = SetWorker(i, "report", None,
                                        <<Error(item.path, "missing issue number.")>>)
                /\ calls' = calls
           ELSE IF r.errors # <<>>
           THEN /\ workers' = SetWorker(i, "report", None, r.errors)
                /\ calls' = calls
           ELSE IF Truthy(PyOr(item.doc.milestone, item.milestone_title))
                   /\ r.milestone_number = None
           THEN /\ workers' = SetWorker(i, "skipped", None, <<>>)
                /\ calls' = calls
           ELSE /\ workers' = SetWorker(i, "calling", None, <<>>)
                /\ calls' = LogCall(item.path, Call("update_issue", kw, update_issue_payload(kw)))
    /\ UNCHANGED <<files, dirs, pc, plan, parsed, errors, ms_i, errors_lock, run, prev_calls, cmd, http, text>>

\* An update_single_milestone that records the number of its milestone in
\* the table of the plan when the call has returned.
update_returns_RecordsNumber(i) ==
    /\ pc \in ParallelPhases
    /\ workers[i].st \in {"calling", "closing"}
    /\ ~(pc = "create_issues" /\ workers[i].st = "calling")
    /\ calls' = SetResult(Items(pc)[i].path, "ok")
    /\ workers' = [workers EXCEPT ![i].st = "done"]
    /\ plan' = IF pc = "update_milestones"
               THEN [plan EXCEPT !.milestone_numbers =
                        DictUpdate(@, Items(pc)[i].doc.title, Items(pc)[i].doc.number)]
               ELSE plan
    /\ UNCHANGED <<files, dirs, pc, parsed, errors, ms_i, errors_lock, run, prev_calls, cmd, http, text>>

\* An update call (update_milestone, update_issue, update_issue_state)
\* returned: the function returns.
update_returns(i) ==
    /\ pc \in ParallelPhases
    /\ workers[i].st \in {"calling", "closing"}
    /\ ~(pc = "create_issues" /\ workers[i].st = "calling")
    /\ calls' = SetResult(Items(pc)[i].path, "ok")
    /\ workers' = [workers EXCEPT ![i].st = "done"]
    /\ UNCHANGED <<files, dirs, pc, plan, parsed, errors, ms_i, errors_lock, run, prev_calls, cmd, http, text>>

\* A remote call raised: the exception leaves the function and is kept in
\* the future.
call_raises(i) ==
    /\ pc \in ParallelPhases
    /\ workers[i].st \in {"calling", "closing"}
    /\ calls' = SetResult(Items(pc)[i].path, "raise")
    /\ workers' = [workers EXCEPT ![i].st = "raised"]
    /\ UNCHANGED <<files, dirs, pc, plan, parsed, errors, ms_i, errors_lock, run, prev_calls, cmd, http, text>>

\* with errors_lock: entered by a worker that has errors to report.
worker_lock(i) ==
    /\ pc \in ParallelPhases
    /\ workers[i].st = "report"
    /\ ~errors_lock
    /\ errors_lock' = TRUE
    /\ workers' = [workers EXCEPT ![i].st = "locked"]
    /\ UNCHANGED <<files, dirs, pc, plan, parsed, errors, ms_i, calls, run, prev_calls, cmd, http, text>>

\* errors.append / errors.extend under the lock; the function returns.
worker_report(i) ==
    /\ pc \in ParallelPhases
    /\ workers[i].st = "locked"
    /\ errors' = errors \o workers[i].errs
    /\ errors_lock' = FALSE
    /\ workers' = [workers EXCEPT ![i].st = "failed"]
    /\ UNCHANGED <<files, dirs, pc, plan, parsed, ms_i, calls, run, prev_calls, cmd, http, text>>

(***************************************************************************)
(* _run_parallel on the main thread: as_completed yields the finished      *)
(* futures; result() of one that raised is caught and reported.            *)
(***************************************************************************)
main_lock(i) ==
    /\ pc \in ParallelPhases
    /\ workers[i].st = "raised"
    /\ ~errors_lock
    /\ errors_lock' = TRUE
    /\ workers' = [workers EXCEPT ![i].st = "main_locked"]
    /\ UNCHANGED <<files, dirs, pc, plan, parsed, errors, ms_i, calls, run, prev_calls, cmd, http, text>>

\* An except clause that drops the exception.
ParallelError_Dropped(errs) == errs

ParallelError(errs) == Append(errs, Error(NoPath, "Parallel execution error"))

main_report(i) ==
    /\ pc \in ParallelPhases
    /\ workers[i].st = "main_locked"
    /\ errors' = ParallelError(errors)
    /\ errors_lock' = FALSE
    /\ workers' = [workers EXCEPT ![i].st = "failed_exc"]
    /\ UNCHANGED <<files, dirs, pc, plan, parsed, ms_i, calls, run, prev_calls, cmd, http, text>>

NextPhase(phase) ==
    CASE phase = "update_milestones" -> "create_issues"
      [] phase = "create_issues" -> "update_issues"
      [] phase = "update_issues" -> "applied"

\* _run_parallel returns and apply_sync_plan calls the next phase, which
\* submits its items (or apply_sync_plan returns).
_run_parallel_return ==
    /\ pc \in ParallelPhases
    /\ AllCollected(workers)
    /\ pc' = NextPhase(pc)
    /\ workers' = Submit(Items(NextPhase(pc)))
    /\ UNCHANGED <<files, dirs, plan, parsed, errors, ms_i, errors_lock, calls, run, prev_calls, cmd, http, text>>

\* sync_command after apply_sync_plan: exit code 1 when errors were recorded.
\* An end of the command that does not look at the errors of the apply.
sync_exit_IgnoresErrors ==
    /\ pc = "applied"
    /\ pc' = "exit0"
    /\ UNCHANGED <<files, dirs, plan, parsed, errors, ms_i, workers, errors_lock, calls,
                   run, prev_calls, cmd, http, text>>

sync_exit ==
    /\ pc = "applied"
    /\ pc' = IF errors # <<>> THEN "exit1" ELSE "exit0"
    /\ UNCHANGED <<files, dirs, plan, parsed, errors, ms_i, workers, errors_lock, calls,
                   run, prev_calls, cmd, http, text>>

\* The process has ended: with its exit code, or by an exception that left
\* apply_sync_plan ("crashed"), build_sync_plan ("raised") or
\* import_existing_issues ("import_raised").
Ended == {"exit0", "exit1", "crashed", "raised", "import_raised"}

\* The command is run again on the tree the previous run left.
MaxRuns == 2

sync_again ==
    /\ pc \in Ended
    /\ run < MaxRuns
    /\ run' = run + 1
    /\ pc' = "start"
    /\ prev_calls' = calls
    /\ cmd' = cmd
    /\ calls' = NoCalls
    /\ plan' = SyncPlan
    /\ parsed' = [milestones |-> 0, issues |-> 0]
    /\ errors' = <<>>
    /\ ms_i' = 1
    /\ workers' = <<>>
    /\ errors_lock' = FALSE
    /\ UNCHANGED <<files, dirs, http, text>>

\* sync_command up to the call of build_sync_plan: the layout is loaded and,
\* with --import-existing, the remote issues are imported.
sync_begin ==
    /\ pc = "begin"
    /\ IF ~cmd.layout \/ (cmd.import_existing /\ cmd.auth # "ok")
       THEN /\ pc' = "exit1"
            /\ UNCHANGED <<files, dirs, cmd>>
       ELSE IF ~cmd.import_existing
       THEN /\ pc' = "start"
            /\ UNCHANGED <<files, dirs, cmd>>
       ELSE \E r \in {import_existing_issues(files, dirs, cmd.remote, cmd.list_raises,
                                             cmd.dry_run)} :
                /\ files' = r.files
                /\ dirs' = r.dirs
                /\ pc' = IF r.raised THEN "import_raised" ELSE "start"
                /\ cmd' = [cmd EXCEPT !.imported =
                            IF r.raised THEN None
                            ELSE [issues_created |-> r.issues_created,
                                  issues_moved |-> r.issues_moved,
                                  milestones_created |-> r.milestones_created,
                                  issues_skipped |-> r.issues_skipped]]
    /\ UNCHANGED <<plan, parsed, errors, ms_i, workers, errors_lock, calls, run, prev_calls,
                   http, text>>

\* After a dry run that ended with code 0 the command is run without
\* --dry-run, with the other options and the environment unchanged.
sync_after_dry_run ==
    /\ pc = "exit0"
    /\ cmd.dry_run
    /\ run < MaxRuns
    /\ run' = run + 1
    /\ pc' = "begin"
    /\ prev_calls' = calls
    /\ cmd' = [cmd EXCEPT !.dry_run = FALSE, !.prev_report = cmd.report,
                          !.report = None, !.imported = None]
    /\ calls' = NoCalls
    /\ plan' = SyncPlan
    /\ parsed' = [milestones |-> 0, issues |-> 0]
    /\ errors' = <<>>
    /\ ms_i' = 1
    /\ workers' = <<>>
    /\ errors_lock' = FALSE
    /\ UNCHANGED <<files, dirs, http, text>>

Step ==
    \/ sync_command
    \/ create_milestone_call
    \/ \E n \in MilestoneNumbers : create_milestone_number(n)
    \/ create_milestone_no_number
    \/ create_milestone_raise
    \/ create_milestones_end
    \/ \E i \in DOMAIN workers : update_single_milestone(i)
    \/ \E i \in DOMAIN workers : create_single_issue(i)
    \/ \E i \in DOMAIN workers : \E n \in IssueNumbers : create_issue_number(i, n)
    \/ \E i \in DOMAIN workers : create_issue_no_number(i)
    \/ \E i \in DOMAIN workers : close_created_issue(i)
    \/ \E i \in DOMAIN workers : update_single_issue(i)
    \/ \E i \in DOMAIN workers : update_returns(i)
    \/ \E i \in DOMAIN workers : call_raises(i)
    \/ \E i \in DOMAIN workers : worker_lock(i)
    \/ \E i \in DOMAIN workers : worker_report(i)
    \/ \E i \in DOMAIN workers : main_lock(i)
    \/ \E i \in DOMAIN workers : main_report(i)
    \/ _run_parallel_return
    \/ sync_exit

(***************************************************************************)
(* The local trees the runs start from.                                    *)
(***************************************************************************)
File(meta, body) == [exists |-> TRUE, header |-> "ok", meta |-> meta, body |-> body]

\* The ways a key can appear in a header: absent, or present with a value.
Opt(key, values) == {EmptyDict} \cup {key :> v : v \in values}

M1 == Path("milestones/m1", MILESTONE_FILENAME)

M2 == Path("milestones/m2", MILESTONE_FILENAME)

M1A == Path("milestones/m1/issues", "a.md")

M2A == Path("milestones/m2/issues", "a.md")

RootA == Path(ROOT_ISSUES_DIR, "a.md")

RootB == Path(ROOT_ISSUES_DIR, "b.md")

Tree(present) == [p \in AllPaths |-> IF p \in DOMAIN present THEN present[p] ELSE NoFile]

MilestoneFiles(titles, numbers) ==
    {File(("title" :> PyStr(t)) @@ n, "Scope") : t \in titles, n \in Opt("number", numbers)}

\* Two milestone directories (equal or different titles, numbered or not),
\* an issue in the first one and a root issue: every phase can have work, and
\* the parallel phases can have two items.
FlowTrees ==
    {Tree((M1 :> m1) @@ (M2 :> m2) @@ (M1A :> ia) @@ (RootA :> ra)) :
        m1 \in MilestoneFiles({"T1"}, {PyInt(3)}),
        m2 \in MilestoneFiles({"T1", "T2"}, {PyInt(4)}),
        ia \in {File(("title" :> PyStr("Ship it")) @@ n @@ st, "Body") :
                    n \in Opt("number", {PyInt(9)}),
                    st \in Opt("state", {PyStr("closed")})},
        ra \in {File(("title" :> PyStr("Fix it")) @@ n @@ ms, "") :
                    n \in Opt("number", {PyInt(10)}),
                    ms \in Opt("milestone", {None, PyStr("T2")})}}

\* One milestone directory and one issue, in it or at the root, with every
\* shape of the milestone, labels, assignees and state keys.
PayloadTrees ==
    {Tree((M1 :> m1) @@ (ip :> i)) :
        m1 \in MilestoneFiles({"T1"}, {PyInt(3)}),
        ip \in {M1A, RootA},
        i \in {File(("title" :> PyStr("Ship it")) @@ n @@ ms @@ la @@ as @@ st, "Body") :
                    n \in Opt("number", {PyInt(9)}),
                    ms \in Opt("milestone", {None, PyStr("T1"), PyStr("T9"), PyStr(""), PyInt(5)}),
                    la \in Opt("labels", {None, PyList(<<>>), PyList(<<"bug">>)}),
                    as \in Opt("assignees", {PyList(<<>>), PyList(<<"alice">>)}),
                    st \in {EmptyDict,
                            "state" :> PyStr("open"),
                            "state" :> PyStr("closed"),
                            ("state" :> PyStr("closed")) @@ ("state_reason" :> PyStr("completed")),
                            "state_reason" :> PyStr("completed")}}}

InitWith(trees, ds) ==
    /\ files \in trees
    /\ dirs = ds
    /\ pc = "start"
    /\ plan = SyncPlan
    /\ parsed = [milestones |-> 0, issues |-> 0]
    /\ errors = <<>>
    /\ ms_i = 1
    /\ workers = <<>>
    /\ errors_lock = FALSE
    /\ calls = NoCalls
    /\ run = 1
    /\ prev_calls = NoCalls
    /\ cmd = PlainSync
    /\ http = NoRequest
    /\ text = NoText

Init == InitWith(FlowTrees, {"milestones/m1", "milestones/m2"})

Next == Step

Spec == Init /\ [][Next]_vars


\* One milestone directory with one issue, and possibly a root issue: the
\* trees on which the command is run twice.
TwiceTrees ==
    {Tree((M1 :> m1) @@ (M1A :> ia) @@ ra) :
        m1 \in MilestoneFiles({"T1"}, {PyInt(3)}),
        ia \in {File(("title" :> PyStr("Ship it")) @@ n @@ ms @@ st, "Body") :
                    n \in Opt("number", {PyInt(9)}),
                    ms \in Opt("milestone", {None, PyStr("T9")}),
                    st \in Opt("state", {PyStr("closed")})},
        ra \in {EmptyDict} \cup
               {RootA :> File(("title" :> PyStr("Fix it")) @@ ms, "") :
                    ms \in Opt("milestone", {PyStr("T1")})}}

\* The trees of FlowTrees with work in every phase: a milestone to create
\* and one to update, a closed issue to create and an issue to update.
FairTrees ==
    {t \in FlowTrees :
        /\ "number" \notin DOMAIN t[M1].meta
        /\ "number" \in DOMAIN t[M2].meta
        /\ "number" \notin DOMAIN t[M1A].meta
        /\ "state" \in DOMAIN t[M1A].meta
        /\ "number" \in DOMAIN t[RootA].meta}

InitFair == InitWith(FairTrees, {"milestones/m1", "milestones/m2"})

\* A step of apply_sync_plan and of the command after it.
ApplyStep == pc # "start" /\ Step

\* Every remote call returns or fails and the threads are scheduled: once
\* the plan is being applied, a step that is possible is taken.
SpecFair == InitFair /\ [][Next]_vars /\ WF_vars(ApplyStep)

InitPayload == InitWith(PayloadTrees, {"milestones/m1"})

SpecPayload == InitPayload /\ [][Next]_vars

\* The command run twice on the same tree.
NextTwice == Step \/ sync_again

InitTwice == InitWith(TwiceTrees, {"milestones/m1"})

SpecTwice == InitTwice /\ [][NextTwice]_vars

\* A file whose header is of a kind that does not give a mapping.
BadFile(header) == [exists |-> TRUE, header |-> header, meta |-> EmptyDict, body |-> "Body"]

\* Trees with malformed and invalid documents beside well-formed ones: the
\* milestone.md of m1 missing, malformed, wrongly typed, or well-formed;
\* that of m2 missing or well-formed (with the title of m1 or another); an
\* issue in each directory and at the root, absent, malformed, invalid or
\* well-formed.
BuildTrees ==
    {Tree(m1 @@ m2 @@ ia @@ ib @@ ra) :
        m1 \in {EmptyDict} \cup
               {M1 :> f : f \in {BadFile("unclosed"), BadFile("notmap"), BadFile("badyaml"),
                                 File(EmptyDict, "Scope"),
                                 File(("title" :> PyStr("T1")) @@ ("number" :> PyStr("x")), ""),
                                 File("title" :> PyStr("T1"), "Scope"),
                                 File(("title" :> PyStr("T1")) @@ ("number" :> PyInt(3)), "")}},
        m2 \in {EmptyDict} \cup
               {M2 :> File(("title" :> PyStr(t)) @@ ("number" :> PyInt(4)), "") : t \in {"T1", "T2"}},
        ia \in {EmptyDict} \cup
               {M1A :> f : f \in {BadFile("unclosed"), BadFile("badyaml"),
                                  File(("title" :> PyStr("A")) @@ ("labels" :> PyStr("bug")), ""),
                                  File("title" :> PyStr("A"), "Body"),
                                  File(("title" :> PyStr("A")) @@ ("number" :> PyInt(9)), ""),
                                  File(("title" :> PyStr("A")) @@ ("state_reason" :> PyStr("completed")), ""),
                                  File(("title" :> PyStr("A")) @@ ("state" :> PyStr("open"))
                                            @@ ("state_reason" :> PyStr("completed")), "")}},
        ib \in {EmptyDict} \cup
               {M2A :> File(("title" :> PyStr("B")) @@ ("state" :> PyStr("closed")), "")},
        ra \in {EmptyDict} \cup
               {RootA :> f : f \in {BadFile("none"), BadFile("badyaml"),
                                    File(("title" :> PyStr("R")) @@ ("number" :> PyInt(10)), ""),
                                    File(("title" :> PyStr("R")) @@ ("number" :> PyInt(10))
                                            @@ ("state_reason" :> PyStr("not_planned")), "")}}}

InitBuild == InitWith(BuildTrees, {"milestones/m1", "milestones/m2"})

SpecBuild == InitBuild /\ [][Next]_vars

(***************************************************************************)
(* The whole command: its options, its environment and the remote issue    *)
(* list that --import-existing reads.                                      *)
(***************************************************************************)
\* A remote milestone and a remote issue as the REST API returns them.
RemoteMilestone(title, number) ==
    [title |-> title, number |-> PyInt(number), description |-> None, due_on |-> None,
     state |-> PyStr("open")]

RemoteIssue(number, title, body, milestone, state) ==
    [number |-> PyInt(number), title |-> title, body |-> body, milestone |-> milestone,
     state |-> PyStr(state), state_reason |-> None, labels |-> <<>>, assignees |-> <<>>,
     created_at |-> None, pull_request |-> FALSE]

\* Issue 7 (title A; open, closed or reopened), alone or followed by
\* issue 8 of the same title, with the same or another body, or by a pull
\* request.
RemoteLists ==
    {<<>>} \cup
    {<<i7>> \o rest :
        i7 \in {[RemoteIssue(7, "A", PyStr("Body"), ms, st[1]) EXCEPT !.state_reason = st[2]] :
                    ms \in {None, RemoteMilestone("M1", 3)},
                    st \in {<<"open", None>>, <<"closed", None>>,
                            <<"open", PyStr("reopened")>>}},
        rest \in {<<>>} \cup
                 {<<RemoteIssue(8, "A", b, ms, "open")>> :
                    b \in {PyStr("Body"), PyStr("Other")},
                    ms \in {None, RemoteMilestone("M1", 3)}} \cup
                 {<<[RemoteIssue(9, "B", None, RemoteMilestone("M1", 3), "open")
                        EXCEPT !.pull_request = TRUE]>>}}

\* The first milestone directory absent, or present with its issues
\* directory; a root issue that is unnumbered (with the title and body of
\* remote issue 7), numbered 7, or numbered 7 and without a title; possibly
\* a file of the same name in the milestone's issues directory.
CommandTrees ==
    {[files |-> Tree(t[1] @@ t[2] @@ t[3]),
      dirs |-> IF t[1] = EmptyDict THEN {} ELSE {"milestones/m1", "milestones/m1/issues"}] :
        t \in {u \in ({EmptyDict} \cup {M1 :> f : f \in MilestoneFiles({"M1"}, {PyInt(3)})})
                   \X ({EmptyDict} \cup
                       {RootA :> File(("title" :> PyStr("A")) @@ n @@ st, "Body\n") :
                            n \in Opt("number", {PyInt(7)}),
                            st \in Opt("state", {PyStr("closed")})} \cup
                       {RootA :> File("number" :> PyInt(7), "Body")})
                   \X {EmptyDict, M1A :> File("title" :> PyStr("B"), "")} :
                u[3] = EmptyDict \/ u[1] # EmptyDict}}

\* The options and the environment of an invocation.
Invocations ==
    {c \in [dry_run : BOOLEAN, import_existing : BOOLEAN, layout : BOOLEAN,
            auth : {"ok", "notoken", "norepo"}, remote : RemoteLists,
            list_raises : BOOLEAN, imported : {None}, report : {None},
            prev_report : {None}] :
        /\ ~c.import_existing => c.remote = <<>> /\ ~c.list_raises
        /\ ~c.layout => c.auth = "ok" /\ c.remote = <<>> /\ ~c.list_raises
        /\ c.list_raises => c.remote = <<>>}

InitCommand ==
    /\ \E t \in CommandTrees :
            /\ files = t.files
            /\ dirs = t.dirs
    /\ cmd \in Invocations
    /\ pc = "begin"
    /\ plan = SyncPlan
    /\ parsed = [milestones |-> 0, issues |-> 0]
    /\ errors = <<>>
    /\ ms_i = 1
    /\ workers = <<>>
    /\ errors_lock = FALSE
    /\ calls = NoCalls
    /\ run = 1
    /\ prev_calls = NoCalls
    /\ http = NoRequest
    /\ text = NoText

NextCommand == sync_begin \/ Step \/ sync_after_dry_run

SpecCommand == InitCommand /\ [][NextCommand]_vars

\* The root issues directory with some of the names that the import gives
\* to an issue of title A already taken, by issues of other numbers; a
\* name with a counter is left free.
TakenNames ==
    {ns \in SUBSET {"00000000-a.md", "00000000-a-8.md", "00000000-a-2.md", "00000000-a-3.md"} :
        {"00000000-a-2.md", "00000000-a-3.md"} \ ns # {}}

ImportTrees ==
    {[files |-> Tree([p \in {Path(ROOT_ISSUES_DIR, n) : n \in ns} |->
                        File(("title" :> PyStr(t)) @@ ("number" :> PyInt(11)), "Body")]),
      dirs |-> {}] :
        ns \in TakenNames, t \in {"A", "B"}}

\* Issue 8 of title A, alone or after issue 7 of the same title and date,
\* with or without a milestone.
ImportLists ==
    {first \o <<RemoteIssue(8, "A", PyStr("Other"), ms, "open")>> :
        first \in {<<>>, <<RemoteIssue(7, "A", PyStr("Body"), None, "open")>>},
        ms \in {None, RemoteMilestone("M1", 3)}}

\* import_existing_issues alone: sync with --import-existing and
\* credentials, up to the call of build_sync_plan.
InitImport ==
    /\ \E t \in ImportTrees :
            /\ files = t.files
            /\ dirs = t.dirs
            /\ cmd \in {c \in [dry_run : BOOLEAN, import_existing : {TRUE}, layout : {TRUE},
                                auth : {"ok"}, remote : ImportLists, list_raises : {FALSE},
                                imported : {None}, report : {None}, prev_report : {None}] :
                            Len(c.remote) = 2 =>
                                ~t.files[Path(ROOT_ISSUES_DIR, "00000000-a.md")].exists}
    /\ pc = "begin"
    /\ plan = SyncPlan
    /\ parsed = [milestones |-> 0, issues |-> 0]
    /\ errors = <<>>
    /\ ms_i = 1
    /\ workers = <<>>
    /\ errors_lock = FALSE
    /\ calls = NoCalls
    /\ run = 1
    /\ prev_calls = NoCalls
    /\ http = NoRequest
    /\ text = NoText

SpecImport == InitImport /\ [][sync_begin]_vars

\* One milestone directory with an issue, and a root issue, numbered or not;
\* the files have keys that the documents do not know (owner, priority), a
\* description in the header or only a body, and labels given as null.
WriteBackTrees ==
    {Tree((M1 :> m1) @@ (M1A :> ia) @@ (RootA :> ra)) :
        m1 \in {File(("title" :> PyStr("T1")) @@ n @@ keys[1], keys[2]) :
                    n \in Opt("number", {PyInt(3)}),
                    keys \in {<<EmptyDict, "">>,
                              <<EmptyDict, "Scope">>,
                              <<"description" :> PyStr("Goal"), "Scope">>,
                              <<"owner" :> PyStr("me"), "">>}},
        ia \in {File(("title" :> PyStr("Ship it")) @@ ("state" :> PyStr("closed")) @@ n @@ pr,
                     "Body") :
                    n \in Opt("number", {PyInt(9)}),
                    pr \in Opt("priority", {PyStr("high")})},
        ra \in {File(("title" :> PyStr("Fix it")) @@ keys, "") :
                    keys \in {"number" :> PyInt(10),
                              "labels" :> None,
                              "labels" :> PyList(<<"bug">>)}}}

InitWriteBack == InitWith(WriteBackTrees, {"milestones/m1"})

SpecWriteBack == InitWriteBack /\ [][Next]_vars

\* The number of issues that one phase has to exceed MAX_WORKERS.
ManyIssues == MAX_WORKERS + 1

\* The first ManyIssues issue files of the root and of the first milestone
\* directory, each with its own number: the update phase has more items
\* than the pool has threads.
ManyUpdates ==
    LET paths == [k \in 1..ManyIssues |->
                    IF k <= Len(IssueNames) THEN Path(ROOT_ISSUES_DIR, IssueNames[k])
                    ELSE Path(IssuesDirOf(MilestoneDirs[1]), IssueNames[k - Len(IssueNames)])]
    IN  Tree([p \in {paths[k] : k \in 1..ManyIssues} \cup {M1} |->
                IF p = M1 THEN File(("title" :> PyStr("T1")) @@ ("number" :> PyInt(3)), "")
                ELSE File(("title" :> PyStr("Ship it"))
                          @@ ("number" :> PyInt(10 + CHOOSE k \in 1..ManyIssues : paths[k] = p)),
                          "Body")])

InitPool ==
    \/ InitWith({ManyUpdates}, {"milestones/m1"})
    \/ InitWith(FlowTrees, {"milestones/m1", "milestones/m2"})

SpecPool == InitPool /\ [][Next]_vars

(***************************************************************************)
(* The GitHub client on its own: one request, or list_issues with the      *)
(* pages that the server holds.                                            *)
(***************************************************************************)
SyncUnchanged ==
    UNCHANGED <<files, dirs, pc, plan, parsed, errors, ms_i, workers, errors_lock,
                calls, run, prev_calls, cmd, text>>

\* X-RateLimit-Reset of a rate-limited 403: the waits are 0, 1, 60 and 61.
ResetTimes == {Now - 1, Now, Now + MaxWait - 1, Now + MaxWait}

\* Retry-After of a 429, in seconds.
RetryAfters == {30, 90}

ErrorResponses ==
    {Response(s, None, None, None) : s \in {401, 500}}
    \cup {Response(403, remaining, None, None) : remaining \in {None, PyStr("100")}}
    \cup {Response(403, PyStr("0"), reset, None) : reset \in {None} \cup {PyInt(n) : n \in ResetTimes}}
    \cup {Response(429, None, None, retry_after) :
              retry_after \in {None} \cup {PyInt(n) : n \in RetryAfters}}

\* One page of issues as the server answers it: the body (a list of issues,
\* or a mapping), and the Link header with the name as the server spells it.
Page(body, link_name, link) == [body |-> body, link_name |-> link_name, link |-> link]

LastPage == Page(PyList(<<>>), "Link", None)

Links == {None, PyList(<<"next">>), PyList(<<"prev", "next">>), PyList(<<"prev", "last">>)}

\* The pages that page k of the server can be: its issues are k0 and k1.
PagesAt(k) ==
    {Page(PyList(<<10 * k, 10 * k + 1>>), "Link", link) : link \in Links}
    \cup {Page(PyList(<<10 * k, 10 * k + 1>>), "link", PyList(<<"next">>)),
          Page([t |-> "dict"], "Link", None)}

MaxPages == 2

\* The server holds one page, or two of which the first names a next one.
PageChains ==
    {<<p>> : p \in PagesAt(1)}
    \cup {<<p, q>> : p \in {r \in PagesAt(1) : r.link # None}, q \in PagesAt(MaxPages)}

\* The page of the server with a number; past the last one it is empty.
PageAt(pages, k) == IF k <= Len(pages) THEN pages[k] ELSE LastPage

PageOf(h) == PageAt(h.pages, h.page)

\* The success that the server answers to the request in flight.
OkResponse(h) ==
    IF h.op = "list_issues"
    THEN [Response(200, None, None, None) EXCEPT
              !.body = PageOf(h).body, !.link_name = PageOf(h).link_name,
              !.link = PageOf(h).link]
    ELSE Response(200, None, None, None)

Answers(h) == ErrorResponses \cup {OkResponse(h)}

\* _request_once: session.request sends the request through the adapter,
\* which has all its retries.
_request_once ==
    /\ http.pc = "call"
    /\ http' = [http EXCEPT !.pc = "await", !.once = @ + 1, !.sent = @ + 1,
                            !.total = max_retries]
    /\ SyncUnchanged

\* The adapter of the session gets a response that it retries: it sleeps
\* for the Retry-After of the response when there is one (the backoff
\* sleeps between the retries of a 5xx are not recorded) and sends the
\* request again.  adapter_slept is the set of the seconds it slept.
adapter_retries ==
    /\ http.pc = "await"
    /\ \E r \in Answers(http) :
            /\ AdapterRetries(http.method, r, http.total)
            /\ http' = [http EXCEPT
                            !.total = @ - 1, !.sent = @ + 1,
                            !.adapter_slept = IF r.retry_after # None
                                              THEN @ \cup {r.retry_after.n}
                                              ELSE @]
    /\ SyncUnchanged

\* session.request returns the response to _request_once.
response_returned ==
    /\ http.pc = "await"
    /\ \E r \in Answers(http) :
            /\ ~AdapterRetries(http.method, r, http.total)
            /\ http' = [http EXCEPT !.response = r, !.pc = "handle"]
    /\ SyncUnchanged

RateLimitExceeded == GitHubAPIError(403, "Rate limit exceeded. Try again later.")

\* _request_with_headers once a _request_once has returned: after the first
\* one _handle_rate_limit decides whether to wait and send once more.
_request_with_headers ==
    /\ http.pc = "handle"
    /\ LET response == http.response
           limit == IF http.once = 1 THEN _handle_rate_limit(response)
                    ELSE [raised |-> FALSE, wait_seconds |-> None]
       IN  http' =
             IF limit.raised
             THEN [http EXCEPT !.pc = "raised", !.error = RateLimitExceeded]
             ELSE IF limit.wait_seconds # None
             THEN [http EXCEPT !.pc = "call",
                               !.slept = Append(@, limit.wait_seconds.n)]
             ELSE IF ~ResponseOk(response)
             THEN [http EXCEPT !.pc = "raised", !.error = ErrorOf(response)]
             ELSE [http EXCEPT !.pc = IF http.op = "list_issues" THEN "page" ELSE "returned"]
    /\ SyncUnchanged

\* list_issues with the data and the headers of one page.
list_issues ==
    /\ http.pc = "page"
    /\ LET response == http.response
       IN  http' =
             IF response.body.t # "list"
             THEN [http EXCEPT !.pc = "raised",
                               !.error = GitHubAPIError(500, "Unexpected issues response.")]
             ELSE IF ~_has_next_link(LinkOf(response))
             THEN [http EXCEPT !.pc = "returned", !.issues = @ \o response.body.l]
             ELSE [http EXCEPT !.pc = "call", !.issues = @ \o response.body.l,
                               !.page = @ + 1, !.requested = Append(@, http.page + 1),
                               !.once = 0, !.sent = 0, !.slept = <<>>,
                               !.adapter_slept = {}]
    /\ SyncUnchanged

Methods == {"GET", "POST", "PATCH"}

Requests ==
    {[NoRequest EXCEPT !.op = "request", !.method = m, !.pc = "call"] : m \in Methods}
    \cup {[NoRequest EXCEPT !.op = "list_issues", !.pc = "call", !.pages = c,
                            !.requested = <<1>>] : c \in PageChains}

InitClient ==
    /\ files = Tree(<<>>)
    /\ dirs = {}
    /\ pc = "none"
    /\ plan = SyncPlan
    /\ parsed = [milestones |-> 0, issues |-> 0]
    /\ errors = <<>>
    /\ ms_i = 1
    /\ workers = <<>>
    /\ errors_lock = FALSE
    /\ calls = NoCalls
    /\ run = 1
    /\ prev_calls = NoCalls
    /\ cmd = PlainSync
    /\ http \in Requests
    /\ text = NoText

NextClient ==
    \/ _request_once
    \/ adapter_retries
    \/ response_returned
    \/ _request_with_headers
    \/ list_issues

SpecClient == InitClient /\ [][NextClient]_vars

(***************************************************************************)
(* A document as text.  A file record is a text as _parse_front_matter     *)
(* reads it; the text itself is `yaml`, the mapping between the two ---    *)
(* lines with every value as YAML writes it, and `after`, the characters   *)
(* that follow the closing --- line.                                       *)
(***************************************************************************)
\* The values of YAML: a plain or a quoted scalar, or a list of scalars.
Plain(s) == [style |-> "plain", s |-> s]

Quoted(s) == [style |-> "quoted", s |-> s]

YamlList(items) == [style |-> "list", items |-> items]

\* The integers that a plain scalar is read as.
MaxInt == 30

IsInt(s) == \E n \in 0..MaxInt : ToString(n) = s

IntOf(s) == CHOOSE n \in 0..MaxInt : ToString(n) = s

\* yaml.safe_load of a scalar: a plain one is resolved to null or to an
\* integer when it reads as one, a quoted one is a string.
LoadScalar(node) ==
    IF node.style = "quoted" THEN PyStr(node.s)
    ELSE IF node.s \in {"null", "~", ""} THEN None
    ELSE IF IsInt(node.s) THEN PyInt(IntOf(node.s))
    ELSE PyStr(node.s)

\* A list with an item that is not a string is no list of strings.
LoadValue(node) ==
    IF node.style # "list" THEN LoadScalar(node)
    ELSE IF \A k \in DOMAIN node.items : LoadScalar(node.items[k]).t = "str"
    THEN PyList([k \in DOMAIN node.items |-> LoadScalar(node.items[k]).s])
    ELSE [t |-> "other"]

safe_load(yaml) == [key \in DOMAIN yaml |-> LoadValue(yaml[key])]

\* yaml.safe_dump of a scalar: a string is quoted when the plain scalar
\* would not be read as this string.
DumpScalar(value) ==
    CASE value.t = "int" -> Plain(ToString(value.n))
      [] value.t = "null" -> Plain("null")
      [] OTHER -> IF LoadScalar(Plain(value.s)) = value
                  THEN Plain(value.s) ELSE Quoted(value.s)

DumpValue(value) ==
    IF value.t = "list"
    THEN YamlList([k \in DOMAIN value.l |-> DumpScalar(PyStr(value.l[k]))])
    ELSE DumpScalar(value)

safe_dump(front_matter) == [key \in DOMAIN front_matter |-> DumpValue(front_matter[key])]

\* The characters that end a line.
LineEnds == {"\n", "\r"}

RECURSIVE SplitFrom(_, _, _)
\* str.splitlines: `line` is the line that is being read, `lines` are the
\* lines before it; "\r\n" ends a line as "\n" and "\r" do.
SplitFrom(chars, line, lines) ==
    IF chars = <<>> THEN IF line = <<>> THEN lines ELSE Append(lines, line)
    ELSE IF Len(chars) >= 2 /\ chars[1] = "\r" /\ chars[2] = "\n"
    THEN SplitFrom(SubSeq(chars, 3, Len(chars)), <<>>, Append(lines, line))
    ELSE IF Head(chars) \in LineEnds
    THEN SplitFrom(Tail(chars), <<>>, Append(lines, line))
    ELSE SplitFrom(Tail(chars), Append(line, Head(chars)), lines)

splitlines(chars) == SplitFrom(chars, <<>>, <<>>)

RECURSIVE Join(_)
\* "\n".join(lines)
Join(lines) ==
    IF lines = <<>> THEN <<>>
    ELSE IF Len(lines) = 1 THEN lines[1]
    ELSE lines[1] \o <<"\n">> \o Join(Tail(lines))

\* _parse_front_matter, lines 188-190: the body is the lines after the
\* closing --- joined again, without the first character when that is "\n".
BodyAfter(after) ==
    LET body == Join(splitlines(after))
    IN  IF body # <<>> /\ Head(body) = "\n" THEN Tail(body) ELSE body

\* A render_markdown that writes the body directly after the closing ---.
RenderedAfter_NoEmptyLine(body) == body \o <<"\n">>

Dashes == <<"-", "-", "-">>

\* render_markdown, lines 129-132: after the header come an empty section
\* and, when it is not empty, the body; the sections are joined and "\n" is
\* added.  The result is what follows the line of the closing ---.
RenderedAfter(body) ==
    LET sections == IF body # <<>> THEN <<Dashes, <<>>, body>> ELSE <<Dashes, <<>>>>
        rendered == Join(sections) \o <<"\n">>
    IN  SubSeq(rendered, Len(Dashes) + 2, Len(rendered))

\* The text of a document.
Text(yaml, after) == [yaml |-> yaml, after |-> after]

\* _parse_front_matter of a text with a closed header: the file record.
ReadText(t) ==
    [exists |-> TRUE, header |-> "ok", meta |-> safe_load(t.yaml), body |-> BodyAfter(t.after)]

\* The text that render_markdown gives for a file record.
WrittenText(file) == Text(safe_dump(file.meta), RenderedAfter(file.body))

\* The bodies: the characters after the closing --- line.
Chars == {"a", "\n", "\r"}

MaxBody == 2

Afters ==
    UNION {[1..n -> Chars] : n \in 0..MaxBody}
    \cup {<<"\n", "\n", "a">>, <<"\n", "a", "\n">>, <<"a", "\n", "\n">>, <<"a", "\r", "\n">>}

IssueYamls ==
    {title @@ number @@ labels @@ milestone @@ assignees @@ state @@ reason :
        title \in {"title" :> v : v \in {Plain("A"), Quoted("7")}},
        number \in Opt("number", {Plain("7"), Quoted("21"), Plain("x")}),
        labels \in Opt("labels", {Plain("null"), YamlList(<<>>),
                                  YamlList(<<Plain("bug"), Quoted("7")>>)}),
        milestone \in Opt("milestone", {Plain("null"), Plain("3"), Quoted("3"), Plain("M1")}),
        assignees \in Opt("assignees", {Plain("null"), YamlList(<<Plain("al")>>)}),
        state \in Opt("state", {Plain("closed")}),
        reason \in Opt("state_reason", {Plain("completed")})}

MaxRounds == 2

\* load_issue_document of the text.
load_document ==
    /\ text.at = "file"
    /\ LET result == load_issue_document(RootA, ReadText(text.raw))
       IN  text' = IF result.ok
                   THEN [text EXCEPT !.at = "doc", !.doc = result.v, !.prev_doc = text.doc]
                   ELSE [text EXCEPT !.at = "error"]
    /\ UNCHANGED <<files, dirs, pc, plan, parsed, errors, ms_i, workers, errors_lock,
                   calls, run, prev_calls, cmd, http>>

\* The document is written as render_markdown gives it for the mapping of
\* issue_document_to_metadata and the body.
write_document ==
    /\ text.at = "doc"
    /\ text.round < MaxRounds
    /\ text' = [text EXCEPT
                    !.at = "file",
                    !.raw = WrittenText(render_markdown(issue_document_to_metadata(text.doc),
                                                        text.doc.body)),
                    !.prev_raw = text.raw,
                    !.round = @ + 1]
    /\ UNCHANGED <<files, dirs, pc, plan, parsed, errors, ms_i, workers, errors_lock,
                   calls, run, prev_calls, cmd, http>>

InitText ==
    /\ files = Tree(<<>>)
    /\ dirs = {}
    /\ pc = "none"
    /\ plan = SyncPlan
    /\ parsed = [milestones |-> 0, issues |-> 0]
    /\ errors = <<>>
    /\ ms_i = 1
    /\ workers = <<>>
    /\ errors_lock = FALSE
    /\ calls = NoCalls
    /\ run = 1
    /\ prev_calls = NoCalls
    /\ cmd = PlainSync
    /\ http = NoRequest
    /\ \E yaml \in IssueYamls, after \in Afters :
            text = [NoText EXCEPT !.at = "file", !.raw = Text(yaml, after)]

NextText == load_document \/ write_document

SpecText == InitText /\ [][NextText]_vars

(***************************************************************************)
(* Properties.                                                             *)
(***************************************************************************)
\* The calls of a log, each with the path of its document and its place.
Entries(log) ==
    UNION {{[path |-> p, k |-> k, call |-> log[p][k]] : k \in 1..Len(log[p])} : p \in AllPaths}

\* The phase of apply_sync_plan that makes a call.
PhaseOf(op) ==
    CASE op = "create_milestone" -> 1
      [] op = "update_milestone" -> 2
      [] op \in {"create_issue", "update_issue_state"} -> 3
      [] op = "update_issue" -> 4

Paths(items) == {items[i].path : i \in DOMAIN items}

ItemAt(items, path) == items[CHOOSE i \in DOMAIN items : items[i].path = path]

\* The number in the header of the file, None when it has none.
NumberIn(file) == Get(file.meta, "number")

\* The errors of the list that name a path.
ErrorsNaming(path) == {k \in DOMAIN errors : errors[k].path = path}

\* C1: the four phases of apply_sync_plan are totally ordered.  Whenever a
\* call of a later phase has started, every call of an earlier phase has
\* returned, and a created issue has its number written back and, when it is
\* closed, its state call finished.
C1_PhasesTotallyOrdered ==
    \A a, b \in Entries(calls) :
        PhaseOf(a.call.op) < PhaseOf(b.call.op) =>
            /\ a.call.result # "pending"
            /\ (a.call.op = "create_issue" /\ a.call.result = "number") =>
                    /\ NumberIn(files[a.path]) = a.call.returned
                    /\ ItemAt(plan.issues_to_create, a.path).doc.state = PyStr("closed") =>
                            /\ Len(calls[a.path]) = 2
                            /\ calls[a.path][2].op = "update_issue_state"

\* A run in which all four phases made a call and the last one has started.
C1_Witness ==
    /\ pc = "update_issues"
    /\ \A op \in {"create_milestone", "update_milestone", "create_issue",
                  "update_issue_state", "update_issue"} :
            \E a \in Entries(calls) : a.call.op = op

\* The create call made for a path and answered with a number, if any.
Created(path, op) ==
    /\ calls[path] # <<>>
    /\ calls[path][1].op = op
    /\ calls[path][1].result = "number"

\* The pairs (j, i) of an unnumbered milestone and an unnumbered issue of its
\* issues directory without milestone key, both created with a number.
CreatedPairs ==
    {ji \in (DOMAIN plan.milestones_to_create) \X (DOMAIN plan.issues_to_create) :
        LET M == plan.milestones_to_create[ji[1]]
            I == plan.issues_to_create[ji[2]]
        IN  /\ I.path.dir = IssuesDirOf(M.path.dir)
            /\ ~I.doc.milestone_set
            /\ Created(M.path, "create_milestone")
            /\ Created(I.path, "create_issue")}

\* A milestone created after the j-th one in this run has the same title.
TitleCreatedAgain(j) ==
    \E k \in DOMAIN plan.milestones_to_create :
        /\ k > j
        /\ plan.milestones_to_create[k].doc.title = plan.milestones_to_create[j].doc.title
        /\ Created(plan.milestones_to_create[k].path, "create_milestone")

\* C2 as stated: the issue of an unnumbered milestone's directory is created
\* with the number returned for that milestone, and both files carry the
\* numbers returned.
C2_IssueCreatedWithItsDirectoryMilestone ==
    \A ji \in CreatedPairs :
        LET M == plan.milestones_to_create[ji[1]]
            I == plan.issues_to_create[ji[2]]
        IN  /\ calls[I.path][1].kw.milestone = calls[M.path][1].returned
            /\ NumberIn(files[M.path]) = calls[M.path][1].returned
            /\ NumberIn(files[I.path]) = calls[I.path][1].returned

\* C2 amended: the number sent is the one returned for the milestone unless
\* a milestone created later in the run has the same title; both files carry
\* the numbers returned in every case.
C2_IssueCreatedWithTitleNumber ==
    \A ji \in CreatedPairs :
        LET M == plan.milestones_to_create[ji[1]]
            I == plan.issues_to_create[ji[2]]
        IN  /\ ~TitleCreatedAgain(ji[1]) =>
                    calls[I.path][1].kw.milestone = calls[M.path][1].returned
            /\ TitleCreatedAgain(ji[1]) =>
                    calls[I.path][1].kw.milestone = Get(plan.milestone_numbers, M.doc.title)
            /\ NumberIn(files[M.path]) = calls[M.path][1].returned
            /\ NumberIn(files[I.path]) = calls[I.path][1].returned

\* A milestone and the issue of its directory were both created, the issue
\* with the milestone's number.
C2_Witness ==
    \E ji \in CreatedPairs :
        /\ ~TitleCreatedAgain(ji[1])
        /\ calls[plan.issues_to_create[ji[2]].path][1].kw.milestone
                = calls[plan.milestones_to_create[ji[1]].path][1].returned

\* The title an issue refers to its milestone by: none when it gives a
\* number or an explicit null, else its own title or that of its directory.
TitleRef(item) ==
    IF item.doc.milestone_number # None THEN None
    ELSE IF item.doc.milestone_set /\ item.doc.milestone = None THEN None
    ELSE PyOr(item.doc.milestone, item.milestone_title)

\* The issue refers to a title that has no number in the table.
Unresolved(item) ==
    /\ Truthy(TitleRef(item))
    /\ TitleRef(item).s \notin DOMAIN plan.milestone_numbers

\* The issue has an explicit null milestone and lies in a milestone directory.
NullInDirectory(item) ==
    /\ item.doc.milestone_number = None
    /\ item.doc.milestone_set
    /\ item.doc.milestone = None
    /\ Truthy(item.milestone_title)

IssueItems == plan.issues_to_create \o plan.issues_to_update

\* sync_command is past apply_sync_plan, which returned or raised.
Over == pc \in {"applied", "exit0", "exit1", "crashed"}

\* C3 as stated: when the creation of the milestone titled T fails and T has
\* no number in the table, no call is made for an issue that refers to T by
\* title, and when the run is over an error names that issue.
C3_IssuesOfFailedMilestoneSkippedWithError ==
    \A j \in DOMAIN plan.milestones_to_create :
        \A i \in DOMAIN IssueItems :
            LET M == plan.milestones_to_create[j]
                I == IssueItems[i]
            IN  (/\ calls[M.path] # <<>>
                 /\ calls[M.path][1].result \in {"raise", "nonumber"}
                 /\ M.doc.title \notin DOMAIN plan.milestone_numbers
                 /\ TitleRef(I) = PyStr(M.doc.title))
                =>  /\ calls[I.path] = <<>>
                    /\ Over => ErrorsNaming(I.path) # {}

\* The same when the run is not ended by an exception.
C3_HoldsUnlessRaised ==
    pc # "crashed" => C3_IssuesOfFailedMilestoneSkippedWithError

Raised(log) == {e \in Entries(log) : e.call.result = "raise"}

ParallelErrors == {k \in DOMAIN errors : errors[k].msg = "Parallel execution error"}

\* The call of the current phase was made for the item.
CalledInPhase(item) ==
    \E e \in Entries(calls) : e.path = item.path /\ PhaseOf(e.call.op) = PhaseOf(
        CASE pc = "update_milestones" -> "update_milestone"
          [] pc = "create_issues" -> "create_issue"
          [] pc = "update_issues" -> "update_issue")

\* The item fails without an exception: its milestone title is unresolved,
\* or its create call returned no number.
FailsByItself(item) ==
    \/ pc # "update_milestones" /\ Unresolved(item)
    \/ \E e \in Entries(calls) : e.path = item.path /\ e.call.result = "nonumber"

\* C4: when a parallel phase ends, every item of it was attempted (its call
\* was made unless the item was rejected before the call), the error list has
\* exactly one entry for each item that failed without exception, one entry
\* per raised call of the run, and still the entries of the earlier phases.
C4_AllItemsAttemptedAllFailuresCollected ==
    (pc \in ParallelPhases /\ AllCollected(workers)) =>
        /\ \A i \in DOMAIN Items(pc) :
                LET item == Items(pc)[i]
                IN  /\ \/ CalledInPhase(item)
                       \/ pc # "update_milestones" /\ (Unresolved(item) \/ NullInDirectory(item))
                    /\ Cardinality(ErrorsNaming(item.path))
                            = IF FailsByItself(item) THEN 1 ELSE 0
        /\ Cardinality(ParallelErrors) = Cardinality(Raised(calls))
        /\ \A j \in DOMAIN plan.milestones_to_create :
                LET M == plan.milestones_to_create[j]
                IN  Cardinality(ErrorsNaming(M.path))
                        = IF calls[M.path][1].result = "nonumber" THEN 1 ELSE 0

\* A parallel phase has ended with two items whose calls raised.
C4_Witness ==
    /\ pc \in ParallelPhases
    /\ AllCollected(workers)
    /\ \E i, j \in DOMAIN workers :
            i # j /\ workers[i].st = "failed_exc" /\ workers[j].st = "failed_exc"

\* Every item of the plan was processed: its call was made, or the issue was
\* rejected before the call.
AllProcessed ==
    /\ \A j \in DOMAIN plan.milestones_to_create : calls[plan.milestones_to_create[j].path] # <<>>
    /\ \A j \in DOMAIN plan.milestones_to_update : calls[plan.milestones_to_update[j].path] # <<>>
    /\ \A i \in DOMAIN IssueItems :
            \/ calls[IssueItems[i].path] # <<>>
            \/ Unresolved(IssueItems[i])
            \/ NullInDirectory(IssueItems[i])

\* C5 as stated: a call that raises, in whatever phase, does not stop the
\* run: apply_sync_plan returns normally, every item of every phase has been
\* processed and each raised call has its entry in the error list.
C5_RemoteErrorsDoNotStopTheRun ==
    /\ pc # "crashed"
    /\ (pc \in {"applied", "exit0", "exit1"} /\ AnyWork(plan)) =>
            /\ AllProcessed
            /\ Cardinality(ParallelErrors) = Cardinality(Raised(calls))

\* The parallel phases alone keep what C5 states.
C5_HoldsInParallelPhases ==
    (pc \in {"applied", "exit0", "exit1"} /\ AnyWork(plan)) =>
        /\ AllProcessed
        /\ Cardinality(ParallelErrors) = Cardinality(Raised(calls))

\* The create calls, of this run or the one before, that returned a number.
Numbered(log) ==
    {e \in Entries(log) : /\ e.call.op \in {"create_milestone", "create_issue"}
                          /\ e.call.result = "number"}

Creates(log) == {e \in Entries(log) : e.call.op \in {"create_milestone", "create_issue"}}

UpdatePaths == Paths(plan.milestones_to_update) \cup Paths(plan.issues_to_update)

\* C6: the number a create call returned is in the front matter of the
\* document from the return on: when the close follow-up is called, after
\* that call or the call of another item failed, and in the next run, whose
\* plan has the document in an update list and which never creates it again.
C6_NumberWrittenBackBeforeFollowUp ==
    /\ \A e \in Numbered(calls) \cup Numbered(prev_calls) :
            NumberIn(files[e.path]) = e.call.returned
    /\ \A e \in Entries(calls) :
            e.call.op = "update_issue_state" =>
                /\ NumberIn(files[e.path]) = e.call.kw.number
                /\ calls[e.path][e.k - 1].returned = e.call.kw.number
    /\ (run = 2 /\ pc # "start") =>
            \A e \in Numbered(prev_calls) :
                /\ e.path \in UpdatePaths
                /\ \A c \in Creates(calls) : c.path # e.path

\* In the second run an update_issue call is made for an issue that the first
\* run created and whose close follow-up raised.
C6_Witness ==
    /\ run = 2
    /\ \E e \in Entries(prev_calls) :
            /\ e.call.op = "update_issue_state"
            /\ e.call.result = "raise"
            /\ prev_calls[e.path][1].result = "number"
            /\ calls[e.path] # <<>>
            /\ calls[e.path][1].op = "update_issue"
            /\ calls[e.path][1].kw.number = prev_calls[e.path][1].returned

\* C7 as stated: the second run makes no create call.
C7_SecondRunCreatesNothing ==
    run = 2 => Creates(calls) = {}

\* C7: the second run makes no create call for a document that received a
\* number in the first run, which its plan has in an update list; it makes no
\* create call at all when every create call of the first run returned a
\* number.
C7_SecondRunCreatesNothingNumbered ==
    (run = 2 /\ pc # "start") =>
        /\ \A e \in Numbered(prev_calls) :
                /\ e.path \in UpdatePaths
                /\ e.path \notin Paths(plan.milestones_to_create) \cup Paths(plan.issues_to_create)
                /\ \A c \in Creates(calls) : c.path # e.path
        /\ Creates(prev_calls) = Numbered(prev_calls) => Creates(calls) = {}

\* The second run is over, it made update calls and no create call for the
\* milestone and the issue that the first run created.
C7_Witness ==
    /\ run = 2
    /\ pc = "applied"
    /\ \E a, b \in Numbered(prev_calls) :
            /\ a.call.op = "create_milestone"
            /\ b.call.op = "create_issue"
            /\ calls[a.path] # <<>>
            /\ calls[b.path] # <<>>
    /\ Creates(calls) = {}

\* The calls that send an issue.
IssueCalls == {e \in Entries(calls) : e.call.op \in {"create_issue", "update_issue"}}

\* The title in the milestone.md of the directory the issue file lies in.
DirectoryTitle(path) ==
    IF path \in {M1A, Path("milestones/m1/issues", "b.md")} THEN Get(files[M1].meta, "title")
    ELSE IF path \in {M2A, Path("milestones/m2/issues", "b.md")} THEN Get(files[M2].meta, "title")
    ELSE None

\* The title an issue file is looked up by: its own when it has a non-empty
\* one, else that of its directory.
LookupTitle(path) ==
    LET own == Get(files[path].meta, "milestone")
    IN  IF own.t = "str" /\ own.s # "" THEN own ELSE DirectoryTitle(path)

\* The errors of the list that report the milestone of the issue unresolved.
MilestoneErrors(path) == {k \in ErrorsNaming(path) : errors[k].msg = "milestone has no number."}

\* C8: milestone resolution follows a fixed priority.  Every issue call
\* sends the numeric milestone of the file when it has one; else no number
\* (and, at update, the clear intent) when the key is null; else the entry
\* of the table for the title of the issue or, without one, of its directory;
\* an issue with no title is sent with no milestone and no error.  An issue
\* whose title has no entry is not sent.
C8_MilestoneResolutionPriority ==
    /\ \A e \in IssueCalls :
            LET own == Get(files[e.path].meta, "milestone")
                has == "milestone" \in DOMAIN files[e.path].meta
                title == LookupTitle(e.path)
                clear == e.call.op = "update_issue" /\ e.call.kw.clear_milestone
            IN  IF own.t = "int" THEN e.call.kw.milestone = own /\ ~clear
                ELSE IF has /\ own = None
                THEN e.call.kw.milestone = None /\ (e.call.op = "update_issue" => clear)
                ELSE IF title = None
                THEN e.call.kw.milestone = None /\ ~clear /\ MilestoneErrors(e.path) = {}
                ELSE /\ title.s \in DOMAIN plan.milestone_numbers
                     /\ e.call.kw.milestone = plan.milestone_numbers[title.s]
                     /\ ~clear
    /\ pc = "applied" =>
            \A i \in DOMAIN IssueItems :
                LET path == IssueItems[i].path
                    own == Get(files[path].meta, "milestone")
                    title == LookupTitle(path)
                IN  /\ ("milestone" \in DOMAIN files[path].meta /\ own = None)
                        => _resolve_milestone_number(plan, path, IssueItems[i].doc,
                                                     IssueItems[i].milestone_title)
                            = [milestone_number |-> None, clear_milestone |-> TRUE,
                               errors |-> <<>>]
                    /\ (own.t = "int" \/ (own.t = "str" /\ title = None)
                            \/ ("milestone" \notin DOMAIN files[path].meta /\ title = None))
                        => calls[path] # <<>>
                    /\ (own.t = "str" /\ title # None /\ title.s \notin DOMAIN plan.milestone_numbers)
                        => calls[path] = <<>> /\ Cardinality(MilestoneErrors(path)) = 1

\* An issue in the directory of milestone T1, numbered in the table, is sent
\* with the numeric milestone 5 of its own file.
C8_Witness ==
    /\ "T1" \in DOMAIN plan.milestone_numbers
    /\ calls[M1A] # <<>>
    /\ calls[M1A][1].op \in {"create_issue", "update_issue"}
    /\ Get(files[M1A].meta, "milestone") = PyInt(5)
    /\ calls[M1A][1].kw.milestone = PyInt(5)
    /\ plan.milestone_numbers["T1"] # PyInt(5)

\* The numbered issues whose file has the milestone key with value null.
NullMilestoneUpdates ==
    {i \in DOMAIN plan.issues_to_update :
        LET meta == files[plan.issues_to_update[i].path].meta
        IN  /\ "milestone" \in DOMAIN meta
            /\ meta["milestone"] = None
            /\ plan.issues_to_update[i].doc.number # None}

\* The update_issue call of the path clears the milestone.
ClearsMilestone(path) ==
    /\ calls[path] # <<>>
    /\ calls[path][1].op = "update_issue"
    /\ calls[path][1].kw.clear_milestone
    /\ "milestone" \in DOMAIN calls[path][1].payload
    /\ calls[path][1].payload["milestone"] = None

\* C9 as stated: when apply_sync_plan has returned, every numbered issue
\* with an explicit null milestone, at the root or in a milestone directory,
\* has had its update_issue call with clear_milestone set and a payload that
\* carries the milestone key with value null.
C9_NullMilestoneIsCleared ==
    pc = "applied" =>
        \A i \in NullMilestoneUpdates : ClearsMilestone(plan.issues_to_update[i].path)

\* The same for the issues that lie in no milestone directory.
C9_HoldsForRootIssues ==
    pc = "applied" =>
        \A i \in NullMilestoneUpdates :
            plan.issues_to_update[i].milestone_title = None
                => ClearsMilestone(plan.issues_to_update[i].path)

\* The field of the payload is the list of the file: sent iff the key is
\* present, a null or empty list as the empty list.
SentAsInFile(e, key) ==
    LET meta == files[e.path].meta
    IN  /\ key \in DOMAIN e.call.payload <=> key \in DOMAIN meta
        /\ key \in DOMAIN meta =>
                e.call.payload[key] = IF meta[key] = None THEN PyList(<<>>) ELSE meta[key]

\* C10: labels and assignees are three-valued at create and at update: the
\* field is in the payload of the call iff its key is in the document, an
\* empty list is sent as an empty list, and the field is left out of the
\* call iff the key is absent from the document.
C10_LabelsAssigneesThreeValued ==
    \A e \in IssueCalls : SentAsInFile(e, "labels") /\ SentAsInFile(e, "assignees")

\* An update_issue call sends labels as the empty list of the document, and
\* a create_issue call of a document without the key leaves them out.
C10_Witness ==
    \E e \in IssueCalls :
        /\ Get(files[e.path].meta, "labels") = PyList(<<>>)
        /\ "assignees" \notin DOMAIN files[e.path].meta
        /\ e.call.op = "update_issue"
        /\ e.call.payload["labels"] = PyList(<<>>)
        /\ "assignees" \notin DOMAIN e.call.payload

\* The positions of the update_issue_state calls in the calls of a path.
CloseCalls(path) == {k \in DOMAIN calls[path] : calls[path][k].op = "update_issue_state"}

\* The create phase of the run is over.
IssuesCreated == pc \in {"update_issues", "applied", "exit0", "exit1"}

\* C11: for an issue of the create list update_issue_state is called at most
\* once, right after its create_issue call returned a number, with that
\* number and the state_reason of the document, and only for a document whose
\* state is closed; when the create phase is over it has been called iff the
\* state is closed and the create call returned a number.
C11_CloseFollowUpIffClosed ==
    \A i \in DOMAIN plan.issues_to_create :
        LET path == plan.issues_to_create[i].path
            meta == files[path].meta
            log == calls[path]
        IN  /\ Cardinality(CloseCalls(path)) <= 1
            /\ \A k \in CloseCalls(path) :
                    /\ k = 2
                    /\ log[1].op = "create_issue"
                    /\ log[1].result = "number"
                    /\ log[2].kw.number = log[1].returned
                    /\ log[2].kw.state = PyStr("closed")
                    /\ log[2].kw.state_reason = Get(meta, "state_reason")
                    /\ Get(meta, "state") = PyStr("closed")
            /\ IssuesCreated =>
                    (CloseCalls(path) # {} <=>
                        /\ log # <<>>
                        /\ log[1].result = "number"
                        /\ Get(meta, "state") = PyStr("closed"))

\* A created issue declared closed with a state_reason has had its state
\* call, with the number returned and that reason.
C11_Witness ==
    \E i \in DOMAIN plan.issues_to_create :
        LET path == plan.issues_to_create[i].path
        IN  /\ IssuesCreated
            /\ Len(calls[path]) = 2
            /\ calls[path][2].op = "update_issue_state"
            /\ calls[path][2].result = "ok"
            /\ calls[path][2].kw.number = calls[path][1].returned
            /\ calls[path][2].kw.state_reason = PyStr("completed")

\* build_sync_plan has returned and nothing has been written since.
JustBuilt ==
    /\ pc \in {"create_milestones", "exit0", "exit1"}
    /\ calls = NoCalls
    /\ run = 1

DirSet == {MilestoneDirs[k] : k \in 1..Len(MilestoneDirs)} \cap dirs

MilestoneFileOf(d) == Path(d, MILESTONE_FILENAME)

\* What the milestone.md of the directory parses to.
LoadedMilestone(d) == load_milestone_document(MilestoneFileOf(d), files[MilestoneFileOf(d)])

\* The milestone.md of the directory exists and parses.
ValidDir(d) == files[MilestoneFileOf(d)].exists /\ LoadedMilestone(d).ok

\* What the issue file parses to.
LoadedIssue(path) == load_issue_document(path, files[path])

\* The issue files the builder reads: those at the root and those of the
\* directories whose milestone.md parses.
IssuesRead ==
    {p \in IssuePaths :
        /\ files[p].exists
        /\ \/ p.dir = ROOT_ISSUES_DIR
           \/ \E d \in DirSet : ValidDir(d) /\ p.dir = IssuesDirOf(d)}

\* The issue files that parse and pass the state validation.
ValidIssues ==
    {p \in IssuesRead :
        /\ LoadedIssue(p).ok
        /\ ~(/\ Get(files[p].meta, "state_reason") # None
             /\ Get(files[p].meta, "state") # PyStr("closed"))}

\* The milestone title an issue of the plan is to be tagged with.
TagOf(path) ==
    IF path.dir = ROOT_ISSUES_DIR THEN None
    ELSE LET d == CHOOSE d \in DirSet : path.dir = IssuesDirOf(d)
         IN  PyStr(LoadedMilestone(d).v.title)

\* The paths and tags of a list of the plan, and the paths of all four.
Tagged(items) == {<<items[i].path, items[i].milestone_title>> : i \in DOMAIN items}

PlanPaths ==
    Paths(plan.milestones_to_create) \cup Paths(plan.milestones_to_update)
        \cup Paths(plan.issues_to_create) \cup Paths(plan.issues_to_update)

\* Every parsed, valid document is in the list its number asks for, issues
\* with the tag of their directory; no path is listed twice; the counts are
\* the sizes of the lists.
Classified ==
    /\ Paths(plan.milestones_to_create)
            = {MilestoneFileOf(d) : d \in {e \in DirSet : ValidDir(e) /\ LoadedMilestone(e).v.number = None}}
    /\ Paths(plan.milestones_to_update)
            = {MilestoneFileOf(d) : d \in {e \in DirSet : ValidDir(e) /\ LoadedMilestone(e).v.number # None}}
    /\ Tagged(plan.issues_to_create)
            = {<<p, TagOf(p)>> : p \in {q \in ValidIssues : LoadedIssue(q).v.number = None}}
    /\ Tagged(plan.issues_to_update)
            = {<<p, TagOf(p)>> : p \in {q \in ValidIssues : LoadedIssue(q).v.number # None}}
    /\ Len(plan.milestones_to_create) + Len(plan.milestones_to_update)
            + Len(plan.issues_to_create) + Len(plan.issues_to_update) = Cardinality(PlanPaths)
    /\ parsed.milestones = Len(plan.milestones_to_create) + Len(plan.milestones_to_update)
    /\ parsed.issues = Len(plan.issues_to_create) + Len(plan.issues_to_update)

\* C12 as stated: when build_sync_plan returns, every parsed, valid document
\* is in exactly one list, the one its number asks for, and the title and
\* number of every numbered milestone are a pair of the table.
C12_EveryDocumentInOneListNumberInTable ==
    JustBuilt =>
        /\ Classified
        /\ \A d \in DirSet :
                (ValidDir(d) /\ LoadedMilestone(d).v.number # None) =>
                    Get(plan.milestone_numbers, LoadedMilestone(d).v.title)
                        = LoadedMilestone(d).v.number

\* A later milestone directory has a numbered milestone of the same title.
TitleNumberedAgain(d) ==
    \E e \in DirSet :
        /\ e # d
        /\ \E k \in 1..Len(MilestoneDirs) : \E l \in (k + 1)..Len(MilestoneDirs) :
                MilestoneDirs[k] = d /\ MilestoneDirs[l] = e
        /\ ValidDir(e)
        /\ LoadedMilestone(e).v.title = LoadedMilestone(d).v.title
        /\ LoadedMilestone(e).v.number # None

\* C12: when build_sync_plan returns, every parsed, valid document is in
\* exactly one list, the one its number asks for, issues tagged with the
\* title of their directory, the counts are the sizes of the lists, and the
\* table maps the title of every numbered milestone to its number unless a
\* later directory has a numbered milestone of the same title, whose number
\* the table then has.
C12_EveryDocumentInOneList ==
    JustBuilt =>
        /\ Classified
        /\ \A d \in DirSet :
                (ValidDir(d) /\ LoadedMilestone(d).v.number # None /\ ~TitleNumberedAgain(d)) =>
                    Get(plan.milestone_numbers, LoadedMilestone(d).v.title)
                        = LoadedMilestone(d).v.number

\* The plan has a milestone to create and one to update, an issue to create
\* tagged with its directory's title and a root issue to update without tag.
C12_Witness ==
    /\ JustBuilt
    /\ Paths(plan.milestones_to_create) = {M1}
    /\ Paths(plan.milestones_to_update) = {M2}
    /\ <<M1A, PyStr("T1")>> \in Tagged(plan.issues_to_create)
    /\ <<RootA, None>> \in Tagged(plan.issues_to_update)
    /\ parsed.milestones = 2

\* sync_command is past build_sync_plan, which returned or raised, and
\* nothing has been written since.
AfterBuild == pc # "start" /\ calls = NoCalls /\ run = 1

\* The exit code of the process: an exception that leaves the command ends
\* the interpreter with code 1.
ExitCode == IF pc = "exit0" THEN 0 ELSE 1

\* The issue files of a milestone directory.
IssuesIn(d) == {p \in IssuePaths : p.dir = IssuesDirOf(d)}

\* The milestone directories whose milestone.md is missing or does not parse.
BadDirs == {d \in DirSet : ~ValidDir(d)}

\* One error for the milestone.md and the directory left out of the plan.
SkippedWithOneError(d) ==
    /\ Cardinality(ErrorsNaming(MilestoneFileOf(d))) = 1
    /\ MilestoneFileOf(d) \notin PlanPaths
    /\ \A p \in IssuesIn(d) : p \notin PlanPaths /\ ErrorsNaming(p) = {}

\* C13 as stated: for a milestone directory whose milestone.md is missing or
\* fails to parse, build_sync_plan appends exactly one error, lists neither
\* the milestone nor any issue of the directory and counts none of them; the
\* other directories and the root issues are processed.
C13_BadMilestoneSkipsItsIssuesOnly ==
    AfterBuild => (BadDirs # {} => Classified /\ \A d \in BadDirs : SkippedWithOneError(d))

\* The same for the runs in which build_sync_plan returns.
C13_HoldsWhenBuildReturns ==
    JustBuilt => (BadDirs # {} => Classified /\ \A d \in BadDirs : SkippedWithOneError(d))

\* The issue files that parse, with a state_reason and a state that is
\* omitted or open.
StateReasonNotClosed ==
    {p \in IssuePaths :
        /\ files[p].exists
        /\ LoadedIssue(p).ok
        /\ Get(files[p].meta, "state_reason") # None
        /\ Get(files[p].meta, "state") \in {None, PyStr("open")}}

StateErrors(path) ==
    {k \in ErrorsNaming(path) : errors[k].msg = "state_reason requires state='closed'."}

\* C14 as stated: an issue with state_reason set and state omitted or open
\* is always rejected: once the builder has run an error naming it is in the
\* list and sync ends with code 1; it is in no list and never sent.
C14_StateReasonAlwaysRejected ==
    \A p \in StateReasonNotClosed :
        /\ p \notin PlanPaths
        /\ calls[p] = <<>>
        /\ pc # "start" => (pc \in Ended /\ ExitCode = 1 /\ Cardinality(StateErrors(p)) = 1)

\* C14: an issue with state_reason set and state omitted or open is in no
\* list of the plan and never sent, and sync ends with code 1; the error
\* naming it is appended when the builder reads the file (a root issue, or
\* one of a directory whose milestone.md parses) and returns.
C14_StateReasonRejectedWhenRead ==
    \A p \in StateReasonNotClosed :
        /\ p \notin PlanPaths
        /\ calls[p] = <<>>
        /\ pc # "start" => (pc \in Ended /\ ExitCode = 1)
        /\ (pc \notin {"start", "raised"} /\ p \in IssuesRead) =>
                (Cardinality(StateErrors(p)) = 1 /\ Cardinality(ErrorsNaming(p)) = 1)
        /\ p \notin IssuesRead => ErrorsNaming(p) = {}

\* Sync has ended with code 1 on a tree where an issue with state open and
\* a state_reason is rejected with its error and a milestone is in the plan.
C14_Witness ==
    /\ pc = "exit1"
    /\ M1A \in StateReasonNotClosed
    /\ Get(files[M1A].meta, "state") = PyStr("open")
    /\ Cardinality(StateErrors(M1A)) = 1
    /\ M1 \in PlanPaths

\* The documents the builder reads that do not parse.
BadDocuments ==
    {MilestoneFileOf(d) : d \in {e \in BadDirs : files[MilestoneFileOf(e)].exists}}
        \cup {p \in IssuesRead : ~LoadedIssue(p).ok}

\* C15 as stated: build_sync_plan never raises because of a bad document;
\* it returns with one error per bad document and every well-formed
\* document classified.
C15_BuilderNeverRaises ==
    /\ pc # "raised"
    /\ AfterBuild =>
            /\ Classified
            /\ \A p \in BadDocuments : Cardinality(ErrorsNaming(p)) = 1

\* The same on the runs where no header read is unparsable YAML.
C15_HoldsForDocumentErrors ==
    JustBuilt =>
        /\ Classified
        /\ \A p \in BadDocuments : Cardinality(ErrorsNaming(p)) = 1

(***************************************************************************)
(* The command and the import.                                             *)
(***************************************************************************)
\* C16: while the command runs with --dry-run, with or without
\* --import-existing, no step changes a file or a directory of the local
\* tree, and no create or update call is made.
C16_DryRunWritesNothing ==
    [][cmd.dry_run => files' = files /\ dirs' = dirs /\ calls' = calls /\ calls = NoCalls]_vars

\* A dry run with --import-existing has ended with code 0: the import has
\* counted an issue it would create and a milestone it would create, and
\* the plan has work.
C16_Witness ==
    /\ cmd.dry_run
    /\ pc = "exit0"
    /\ cmd.imported # None
    /\ cmd.imported.issues_created > 0
    /\ cmd.imported.milestones_created > 0
    /\ AnyWork(plan)

\* The counts of the plan that the current run has built.
PlanCounts ==
    [milestones_to_create |-> Len(plan.milestones_to_create),
     issues_to_create |-> Len(plan.issues_to_create),
     milestones_to_update |-> Len(plan.milestones_to_update),
     issues_to_update |-> Len(plan.issues_to_update),
     parsed_milestones |-> parsed.milestones,
     parsed_issues |-> parsed.issues]

\* The run after a dry run has built its plan.
BuiltAfterDryRun ==
    /\ run = 2
    /\ cmd.prev_report # None
    /\ pc \notin {"begin", "start", "raised", "import_raised"}

\* C17 as stated: the counts that sync --dry-run reported are the counts of
\* the plan that the following run without --dry-run builds on the same
\* files, whatever the other option.
C17_DryRunReportsThePlanOfTheNextRun ==
    BuiltAfterDryRun => cmd.prev_report = PlanCounts

\* C17, amended: the counts that sync --dry-run reported are the counts of
\* the plan that the following run without --dry-run builds on the same
\* files, when the command is run without --import-existing.
C17_DryRunReportsThePlanWithoutImport ==
    BuiltAfterDryRun /\ ~cmd.import_existing => cmd.prev_report = PlanCounts

\* After a dry run without import, the next run has built a plan with an
\* issue to create and a milestone to update and has applied it.
C17_Witness ==
    /\ BuiltAfterDryRun
    /\ ~cmd.import_existing
    /\ pc = "applied"
    /\ plan.issues_to_create # <<>>
    /\ plan.milestones_to_update # <<>>

\* The command needs a client: for the import, or to apply a plan that
\* has work.
ClientNeeded == cmd.import_existing \/ (~cmd.dry_run /\ errors = <<>> /\ AnyWork(plan))

\* Nothing has gone wrong in the run that has ended: the layout was there,
\* the credentials and the repository reference were there if needed, no
\* exception has left the command and the error list is empty.
NoErrorOccurred ==
    /\ cmd.layout
    /\ ClientNeeded => cmd.auth = "ok"
    /\ pc \notin {"crashed", "raised", "import_raised"}
    /\ errors = <<>>

\* C18: when the command has ended, its exit code is 0 if and only if no
\* error occurred; it is 1 when the layout is missing, when a client is
\* needed and the token or the repository reference is unavailable, when
\* the error list is not empty after the build or the apply, and when an
\* exception was raised.
C18_ExitCodeZeroIffNoError ==
    pc \in Ended => (ExitCode = 0 <=> NoErrorOccurred)

\* A run without import has ended with code 1 for the only reason that its
\* plan has work and no repository reference was found.
C18_Witness ==
    /\ pc = "exit1"
    /\ cmd.layout
    /\ ~cmd.import_existing
    /\ ~cmd.dry_run
    /\ errors = <<>>
    /\ AnyWork(plan)
    /\ cmd.auth = "norepo"

\* The step taken is an import that returns.
ImportReturns ==
    /\ pc = "begin"
    /\ cmd.layout
    /\ cmd.import_existing
    /\ cmd.auth = "ok"
    /\ pc' = "start"

\* The header of the file records the number.
HasNumber(file, number) ==
    file.exists /\ file.header = "ok" /\ Get(file.meta, "number") = number

\* The file loads as an issue document with the number.
LoadsWithNumber(path, file, number) ==
    /\ file.exists
    /\ load_issue_document(path, file).ok
    /\ load_issue_document(path, file).v.number = number

\* The entries of the remote list that are issues, not pull requests.
RemoteIssuesListed == {k \in DOMAIN cmd.remote : ~cmd.remote[k].pull_request}

ExistingIssuePaths(fs) == {p \in IssuePaths : fs[p].exists}

\* For the set `known` of listed issues, the import creates nothing: every
\* file that carries the number of one of them after the import is a file
\* that carried it before, at its path or moved under its name; the files
\* created and issues_created are at most the other listed issues, and each
\* of `known` is counted as moved or skipped.
NotReCreated(known) ==
    /\ \A k \in known : \A p \in IssuePaths :
            HasNumber(files'[p], cmd.remote[k].number) =>
                \E q \in IssuePaths : /\ q.name = p.name
                                      /\ HasNumber(files[q], cmd.remote[k].number)
    /\ Cardinality(ExistingIssuePaths(files')) - Cardinality(ExistingIssuePaths(files))
            <= Cardinality(RemoteIssuesListed \ known)
    /\ cmd'.imported.issues_created <= Cardinality(RemoteIssuesListed \ known)
    /\ cmd'.imported.issues_moved + cmd'.imported.issues_skipped >= Cardinality(known)

\* C19 as stated: a remote issue whose number is recorded in the header of
\* a local issue file is not created again by the import: no new file, no
\* count in issues_created; it is counted as moved or skipped.
C19_RecordedNumberNeverReCreated ==
    [][ImportReturns =>
        NotReCreated({k \in RemoteIssuesListed :
                        \E p \in IssuePaths : HasNumber(files[p], cmd.remote[k].number)})]_vars

\* C19, amended: a remote issue whose number is that of a local issue file
\* that loads without error is not created again by the import: no new
\* file, no count in issues_created; it is counted as moved or skipped.
C19_LoadedNumberNeverReCreated ==
    [][ImportReturns =>
        NotReCreated({k \in RemoteIssuesListed :
                        \E p \in IssuePaths :
                            LoadsWithNumber(p, files[p], cmd.remote[k].number)})]_vars

\* The import has moved the root file that records issue 7 into the issues
\* directory of the issue's milestone, and has created nothing.
C19_Witness ==
    /\ pc = "start"
    /\ ~cmd.dry_run
    /\ cmd.imported # None
    /\ cmd.imported.issues_moved = 1
    /\ cmd.imported.issues_created = 0
    /\ ~files[RootA].exists
    /\ LoadsWithNumber(M1A, files[M1A], PyInt(7))

\* The local file is unnumbered and has the title and the body of the
\* remote issue, surrounding white space apart.
ContentMatches(file, issue) ==
    /\ file.exists
    /\ load_issue_document(NoPath, file).ok
    /\ load_issue_document(NoPath, file).v.number = None
    /\ issue.body # None
    /\ Strip(load_issue_document(NoPath, file).v.title) = Strip(issue.title)
    /\ Strip(load_issue_document(NoPath, file).v.body) = Strip(issue.body.s)

\* The listed issues that no local file records by number and that the
\* local file at the path matches by content.
MatchedTo(path) ==
    {k \in RemoteIssuesListed :
        /\ ~\E p \in IssuePaths : LoadsWithNumber(p, files[p], cmd.remote[k].number)
        /\ ContentMatches(files[path], cmd.remote[k])}

\* The path of the file under its name in the issues directory of the
\* issue's milestone; its own path when the issue has no milestone.
TargetOf(issue, path) ==
    IF issue.milestone = None THEN path
    ELSE Path(IssuesDirOf("milestones/" \o _slugify(issue.milestone.title)), path.name)

\* A non-dry-run import that returns.
ImportWrites == ImportReturns /\ ~cmd.dry_run

\* The import creates no file for the issues matched to the path.
NothingCreatedFor(path) ==
    /\ Cardinality(ExistingIssuePaths(files')) - Cardinality(ExistingIssuePaths(files))
            <= Cardinality(RemoteIssuesListed \ MatchedTo(path))
    /\ cmd'.imported.issues_created <= Cardinality(RemoteIssuesListed \ MatchedTo(path))

\* C20 as stated: a listed issue that matches a local unnumbered file by
\* title and body gets no new file; the file gets the number, is in the
\* issues directory of the issue's milestone afterwards, and the issue is
\* counted as moved.
C20_ContentMatchBackFilledAndMoved ==
    [][ImportWrites =>
        \A path \in IssuePaths : \A k \in MatchedTo(path) :
            /\ NothingCreatedFor(path)
            /\ HasNumber(files'[TargetOf(cmd.remote[k], path)], cmd.remote[k].number)
            /\ TargetOf(cmd.remote[k], path) # path => ~files'[path].exists
            /\ cmd'.imported.issues_moved >= 1]_vars

\* The import relocates the file for the issue: the issue has a milestone
\* whose issues directory is not the one of the file and holds no file of
\* that name.
Relocates(issue, path) ==
    /\ TargetOf(issue, path) # path
    /\ ~files[TargetOf(issue, path)].exists

\* C20, amended: the listed issues that match a local unnumbered file by
\* title and body get no new file and are counted as moved or skipped, and
\* the file, at its path or relocated under its name, carries the number of
\* one of them.  When one issue only matches the file: the file carries
\* its number; it is relocated, and the issue counted as moved, when the
\* milestone's issues directory differs from the file's and holds no file
\* of that name; otherwise the file stays and the issue is counted as
\* skipped.
C20_ContentMatchBackFilled ==
    [][ImportWrites =>
        \A path \in IssuePaths : MatchedTo(path) # {} =>
            /\ NothingCreatedFor(path)
            /\ cmd'.imported.issues_moved + cmd'.imported.issues_skipped
                    >= Cardinality(MatchedTo(path))
            /\ \E k \in MatchedTo(path) : \E q \in IssuePaths :
                    /\ q.name = path.name
                    /\ HasNumber(files'[q], cmd.remote[k].number)
                    /\ q # path => ~files'[path].exists
            /\ \A k \in MatchedTo(path) : MatchedTo(path) = {k} =>
                    IF Relocates(cmd.remote[k], path)
                    THEN /\ HasNumber(files'[TargetOf(cmd.remote[k], path)],
                                       cmd.remote[k].number)
                         /\ ~files'[path].exists
                         /\ cmd'.imported.issues_moved = 1
                         /\ cmd'.imported.issues_skipped = 0
                    ELSE /\ HasNumber(files'[path], cmd.remote[k].number)
                         /\ cmd'.imported.issues_moved = 0
                         /\ cmd'.imported.issues_skipped = 1]_vars

\* The import has written number 7 into the unnumbered root file that has
\* the content of remote issue 7 and has moved it into the issues directory
\* of the issue's milestone.
C20_Witness ==
    /\ pc = "start"
    /\ ~cmd.dry_run
    /\ cmd.imported # None
    /\ cmd.imported.issues_moved = 1
    /\ cmd.imported.issues_created = 0
    /\ ~files[RootA].exists
    /\ files[M1A].body = "Body\n"
    /\ HasNumber(files[M1A], PyInt(7))
    /\ Len(cmd.remote) = 1

\* No local file records the number of the listed issue or has its title
\* and body.
NoCounterpart(k) ==
    \A p \in IssuePaths :
        /\ ~LoadsWithNumber(p, files[p], cmd.remote[k].number)
        /\ ~ContentMatches(files[p], cmd.remote[k])

\* The listed issues of the state that have no local counterpart.
NewListed(state) ==
    {k \in RemoteIssuesListed : NoCounterpart(k) /\ cmd.remote[k].state = PyStr(state)}

\* The import has written a file with the number at a path that was free.
NewFileFor(number) ==
    \E p \in IssuePaths : ~files[p].exists /\ HasNumber(files'[p], number)

\* C21: a non-dry-run import creates no file for a listed closed issue
\* without local counterpart and counts it as skipped, not created; a
\* listed open issue without local counterpart, reopened or not, gets a new
\* file with its number and is counted as created.
C21_ClosedSkippedOpenImported ==
    [][ImportWrites =>
        /\ \A k \in NewListed("closed") : ~NewFileFor(cmd.remote[k].number)
        /\ cmd'.imported.issues_skipped >= Cardinality(NewListed("closed"))
        /\ cmd'.imported.issues_created
                <= Cardinality(RemoteIssuesListed \ NewListed("closed"))
        /\ \A k \in NewListed("open") : NewFileFor(cmd.remote[k].number)
        /\ cmd'.imported.issues_created >= Cardinality(NewListed("open"))]_vars

\* The half of C21 that holds: every listed open issue without local
\* counterpart, reopened or not, gets a new file and is counted as created.
C21_OpenIssuesImported ==
    [][ImportWrites =>
        /\ \A k \in NewListed("open") : NewFileFor(cmd.remote[k].number)
        /\ cmd'.imported.issues_created >= Cardinality(NewListed("open"))]_vars

\* The import matches the local file at the path to the listed issue: by
\* its number or, when no file records the number, by title and body.
MatchedFile(k, path) ==
    \/ LoadsWithNumber(path, files[path], cmd.remote[k].number)
    \/ k \in MatchedTo(path)

\* After the import the file is at the target path under its name, with
\* the number of the issue and its body, and no longer at the old path; the
\* issue is counted as moved.
MovedTo(k, path) ==
    /\ HasNumber(files'[TargetOf(cmd.remote[k], path)], cmd.remote[k].number)
    /\ files'[TargetOf(cmd.remote[k], path)].body = files[path].body
    /\ ~files'[path].exists
    /\ cmd'.imported.issues_moved >= 1

\* C22 as stated: a local file matched to a listed issue and lying outside
\* the issues directory of the issue's milestone is moved there under its
\* name by a non-dry-run import, and the issue is counted as moved.
C22_MatchedFileMovedToMilestone ==
    [][ImportWrites =>
        \A path \in IssuePaths : \A k \in RemoteIssuesListed :
            MatchedFile(k, path) /\ TargetOf(cmd.remote[k], path) # path => MovedTo(k, path)]_vars

\* C22, amended: the same when the issues directory of the milestone holds
\* no file of that name; a file whose name is taken there stays where it is.
C22_MatchedFileMovedWhenNameFree ==
    [][ImportWrites =>
        \A path \in IssuePaths : \A k \in RemoteIssuesListed :
            /\ MatchedFile(k, path) /\ Relocates(cmd.remote[k], path) => MovedTo(k, path)
            /\ /\ MatchedFile(k, path)
               /\ TargetOf(cmd.remote[k], path) # path
               /\ ~Relocates(cmd.remote[k], path)
               => /\ files'[path].exists
                  /\ files'[TargetOf(cmd.remote[k], path)]
                        = files[TargetOf(cmd.remote[k], path)]]_vars

\* The import has created the directory of milestone M1 and moved the
\* closed root file that records issue 7 into its issues directory.
C22_Witness ==
    /\ pc = "start"
    /\ ~cmd.dry_run
    /\ cmd.imported # None
    /\ cmd.imported.issues_moved = 1
    /\ cmd.imported.milestones_created = 1
    /\ ~files[RootA].exists
    /\ LoadsWithNumber(M1A, files[M1A], PyInt(7))
    /\ Get(files[M1A].meta, "state") = PyStr("closed")

(***************************************************************************)
(* The GitHub client.                                                      *)
(***************************************************************************)
\* The logical request has ended.
RequestEnded == http.pc \in {"returned", "raised"}

\* The response is rate-limited: a 429, or a 403 with no quota remaining.
RateLimited(response) ==
    \/ response.status = 429
    \/ response.status = 403 /\ response.remaining = PyStr("0")

\* C23: one logical request of the client sends at most two HTTP requests:
\* a rate-limited first response makes the client wait once and send once
\* more, and the response to that is final whatever its status.
C23_AtMostTwoHTTPRequests ==
    /\ http.sent <= 2
    /\ Len(http.slept) <= 1
    /\ http.adapter_slept = {}
    /\ http.once = 2 /\ http.pc = "handle" => http.slept # <<>>

\* What holds of C23: the client calls _request_once at most twice and
\* waits at most once, and a request that is not a GET is sent at most
\* twice.
C23_AtMostTwoRequestOnceCalls ==
    /\ http.once <= 2
    /\ Len(http.slept) <= 1
    /\ http.once = 2 => Len(http.slept) = 1
    /\ http.method # "GET" => http.sent = http.once /\ http.adapter_slept = {}

\* A GET has been sent more than twice.
C23_SentMoreThanTwice == http.op = "request" /\ http.sent > 2 /\ RequestEnded

\* The wait that C24 states for a rate-limited response, None when it
\* states that the error is raised.
StatedWait(response) ==
    IF response.status = 429
    THEN IF response.retry_after = None THEN PyInt(MaxWait)
         ELSE PyInt(Min(response.retry_after.n, MaxWait))
    ELSE IF response.reset = None THEN None
    ELSE IF 0 < response.reset.n - Now + 1 /\ response.reset.n - Now + 1 <= MaxWait
    THEN PyInt(response.reset.n - Now + 1)
    ELSE None

\* The client has decided about its first response, which is rate-limited:
\* it waits as C24 states, or raises the rate-limit error without waiting.
ClientWaitsAsStated ==
    /\ \A k \in 1..Len(http.slept) : http.slept[k] <= MaxWait
    /\ http.once = 1 /\ http.pc = "call" =>
            /\ RateLimited(http.response)
            /\ StatedWait(http.response) # None
            /\ http.slept = <<StatedWait(http.response).n>>
    /\ http.once = 1 /\ http.pc = "raised" /\ RateLimited(http.response) =>
            /\ StatedWait(http.response) = None
            /\ http.error = RateLimitExceeded
            /\ http.slept = <<>>

\* C24: the wait before a retry is at most 60 seconds.  For a 429 it is
\* min(Retry-After, 60), 60 without the header; for a 403 with no quota
\* remaining it is reset - now + 1 and the retry is made only when
\* 0 < wait <= 60; otherwise the rate-limit error is raised without retry.
C24_WaitBoundedBy60 ==
    /\ ClientWaitsAsStated
    /\ \A seconds \in http.adapter_slept : seconds <= MaxWait

\* What holds of C24: the wait of the client itself.
C24_ClientWaitBoundedBy60 == ClientWaitsAsStated

\* A GET answered 429 has waited for longer than 60 seconds.
C24_WaitedLonger ==
    /\ RequestEnded
    /\ \E seconds \in http.adapter_slept : seconds > MaxWait

\* The client decides about a first response that is an error and not
\* rate-limited.
OtherErrorFirst ==
    /\ http.pc = "handle"
    /\ http.once = 1
    /\ ~ResponseOk(http.response)
    /\ ~RateLimited(http.response)

NamesNext(page) ==
    /\ page.link # None
    /\ \E k \in 1..Len(page.link.l) : page.link.l[k] = "next"

\* The number of the first page without a Link header with rel="next".
FirstWithoutNext(pages) ==
    CHOOSE n \in 1..(Len(pages) + 1) :
        /\ ~NamesNext(PageAt(pages, n))
        /\ \A k \in 1..(n - 1) : NamesNext(PageAt(pages, k))

RECURSIVE IssuesUpTo(_, _)
\* The issues of the pages 1..n, in page order.
IssuesUpTo(pages, n) ==
    IF n = 0 THEN <<>> ELSE IssuesUpTo(pages, n - 1) \o PageAt(pages, n).body.l

\* list_issues returns the pages up to the first without next link, having
\* requested each of them once and in order, and returns only when every
\* body is a list.
ReturnsThePages ==
    http.op = "list_issues" /\ http.pc = "returned" =>
        LET n == FirstWithoutNext(http.pages)
        IN  /\ \A k \in 1..n : PageAt(http.pages, k).body.t = "list"
            /\ http.requested = [k \in 1..n |-> k]
            /\ http.issues = IssuesUpTo(http.pages, n)

\* C26: list_issues returns the issues of all pages in page order.  It
\* requests page k + 1 exactly when the response to page k has a Link header
\* with rel="next" and stops at the first page without one, drops and
\* duplicates nothing, and raises when the body of a page is not a list.
C26_ListIssuesReturnsAllPages == ReturnsThePages

\* What holds of C26: the same when the server spells every header "Link".
C26_ListIssuesReturnsPagesNamedLink ==
    (\A k \in 1..Len(http.pages) : http.pages[k].link_name = "Link") => ReturnsThePages

\* list_issues has returned the first page only, although its response
\* names a next page.
C26_StoppedBeforeTheNextPage ==
    /\ http.op = "list_issues"
    /\ http.pc = "returned"
    /\ NamesNext(http.pages[1])
    /\ http.requested = <<1>>

Accounted(item) == calls[item.path] # <<>> \/ ErrorsNaming(item.path) # {}

\* C28: apply_sync_plan drops no entry of the plan silently.  When it has
\* returned, for every issue of issues_to_create and of issues_to_update the
\* call was made or the error list has an entry that names the issue, also
\* for an issue with an explicit null milestone in a milestone directory.
C28_NoPlanEntryDroppedSilently ==
    pc = "applied" => \A i \in DOMAIN IssueItems : Accounted(IssueItems[i])

\* What holds of C28: every issue is accounted for but those with an
\* explicit null milestone in a milestone directory.
C28_HoldsButForNullInDirectory ==
    pc = "applied" =>
        \A i \in DOMAIN IssueItems : Accounted(IssueItems[i]) \/ NullInDirectory(IssueItems[i])

\* An issue to create with an explicit null milestone in a milestone
\* directory is left without call and without error.
C28_CreateDropped ==
    /\ pc = "applied"
    /\ \E i \in DOMAIN plan.issues_to_create :
            /\ NullInDirectory(plan.issues_to_create[i])
            /\ ~Accounted(plan.issues_to_create[i])

(***************************************************************************)
(* The write-back of a number.                                             *)
(***************************************************************************)
\* The file after {number: n} is merged into a fresh read of it and written.
FreshMerge(file, n) ==
    LET read == _parse_front_matter(file).v
    IN  render_markdown(DictUpdate(read.metadata, "number", n), read.body)

\* The document of a path, as a milestone or as an issue.
LoadAt(path, file) ==
    IF path \in MilestonePaths THEN load_milestone_document(path, file)
    ELSE load_issue_document(path, file)

\* C29: the write-back of a number after a create gives the front matter
\* that merging {number: n} into a fresh read of the file gives: every key
\* of the file is still there with its value and no key but number is
\* added, for issue files and for milestone files.
C29_WriteBackEqualsFreshMerge ==
    [][\A p \in AllPaths :
            files'[p] # files[p] => files'[p] = FreshMerge(files[p], NumberIn(files'[p]))]_vars

\* What holds of C29: the written file has the number, and the document
\* that is loaded from it is the one loaded before, with the number.
C29_WriteBackKeepsTheDocument ==
    [][\A p \in AllPaths :
            files'[p] # files[p] =>
                /\ NumberIn(files'[p]) # None
                /\ LoadAt(p, files'[p]).ok
                /\ LoadAt(p, files'[p]).v =
                        [LoadAt(p, files[p]).v EXCEPT !.number = NumberIn(files'[p])]]_vars

\* The number of a created issue is written and the key priority is lost.
C29_KeyLost ==
    /\ NumberIn(files[M1A]) # None
    /\ "priority" \notin DOMAIN files[M1A].meta
    /\ calls[M1A] # <<>>
    /\ calls[M1A][1].op = "create_issue"

(***************************************************************************)
(* The worker pool.                                                        *)
(***************************************************************************)
\* The items of the current phase that a pool thread is busy with.
InProcess == {i \in DOMAIN workers : workers[i].st \in Busy}

\* The milestones to create whose create_milestone call has not returned.
CreatesInFlight ==
    {j \in DOMAIN plan.milestones_to_create :
        LET log == calls[plan.milestones_to_create[j].path]
        IN  log # <<>> /\ log[Len(log)].op = "create_milestone"
                       /\ log[Len(log)].result = "pending"}

\* C30: at every moment of apply_sync_plan at most MAX_WORKERS = 5 items of
\* the current phase are being processed, and in the milestone-create phase
\* at most one create_milestone call is in flight: a milestone is created
\* only when the call for every milestone before it in the plan has ended.
C30_AtMostMaxWorkersInFlight ==
    /\ Cardinality(InProcess) <= MAX_WORKERS
    /\ Cardinality(CreatesInFlight) <= 1
    /\ \A j, k \in DOMAIN plan.milestones_to_create :
            (j < k /\ calls[plan.milestones_to_create[k].path] # <<>>) =>
                /\ calls[plan.milestones_to_create[j].path] # <<>>
                /\ j \notin CreatesInFlight

\* Five calls are in flight and a sixth item waits for a thread.
C30_Witness ==
    /\ Cardinality({i \in DOMAIN workers : workers[i].st = "calling"}) = MAX_WORKERS
    /\ \E i \in DOMAIN workers : workers[i].st = "pending"

\* The second of two milestones is being created after the first.
C30_WitnessSequential ==
    /\ Len(plan.milestones_to_create) = 2
    /\ CreatesInFlight = {2}

(***************************************************************************)
(* What the phases of apply_sync_plan write.                               *)
(***************************************************************************)
\* apply_sync_plan is running.
Applying == pc \in {"create_milestones", "create_milestone_wait"} \cup ParallelPhases

\* C31: during apply_sync_plan the table of titles and numbers is written
\* only in the sequential milestone-create phase, by the main thread while
\* no worker exists; in the three phases of the pool it is only read, so
\* all workers of a phase see one table.
C31_TableWrittenOnlyInCreatePhase ==
    [][Applying /\ plan'.milestone_numbers # plan.milestone_numbers =>
            /\ pc = "create_milestone_wait"
            /\ workers = <<>>
            /\ workers' = <<>>]_vars

\* A worker of the issue-create phase is at its call while the table holds
\* a number that the milestone-create phase of this run has written.
C31_Witness ==
    /\ pc = "create_issues"
    /\ \E i \in DOMAIN workers : workers[i].st = "calling"
    /\ \E j \in DOMAIN plan.milestones_to_create :
            LET item == plan.milestones_to_create[j]
            IN  /\ calls[item.path] # <<>>
                /\ calls[item.path][1].result = "number"
                /\ Get(plan.milestone_numbers, item.doc.title) = calls[item.path][1].returned

\* The entries of the four lists of the plan.
PlanEntries ==
    plan.milestones_to_create \o plan.milestones_to_update
        \o plan.issues_to_create \o plan.issues_to_update

\* The paths whose file a step changes.
Written == {p \in AllPaths : files'[p] # files[p]}

\* The create calls of a path that returned a number.
NumberedCreates(p) ==
    {k \in DOMAIN calls[p] : /\ calls[p][k].op \in {"create_milestone", "create_issue"}
                             /\ calls[p][k].result = "number"}

\* The worker is at its create call and gets a number in this step.
GetsNumber(i) ==
    /\ workers[i].st = "calling"
    /\ workers'[i].st \in {"written", "done"}
    /\ workers'[i].number # None

\* In the issue-create phase a step that writes a file is the step of one
\* worker, which writes the file of its own entry with the number that its
\* own create call returned.
WorkerWritesItsOwnFile ==
    [][pc = "create_issues" /\ Written # {} =>
            \E i \in DOMAIN workers :
                LET path == plan.issues_to_create[i].path
                IN  /\ GetsNumber(i)
                    /\ Written = {path}
                    /\ NumberIn(files'[path]) = workers'[i].number
                    /\ calls'[path][Len(calls'[path])].returned = workers'[i].number]_vars

\* No two entries of the plan have one path, and no file has had two
\* create calls that returned a number.
OneEntryOneWrite ==
    /\ \A i, j \in DOMAIN PlanEntries : i # j => PlanEntries[i].path # PlanEntries[j].path
    /\ \A p \in AllPaths : Cardinality(NumberedCreates(p)) <= 1

\* C32: no two entries of the plan have the same path, so no two workers
\* write one file: a file is written by at most one worker in a run, and a
\* worker writes only the file of its own entry, with the number that its
\* own create call returned.
C32_EachFileWrittenByItsOwnWorker == []OneEntryOneWrite /\ WorkerWritesItsOwnFile

\* Two workers of the issue-create phase have both written their number.
C32_Witness ==
    /\ pc = "create_issues"
    /\ \E i, j \in DOMAIN workers :
            /\ i # j
            /\ workers[i].number # None
            /\ workers[j].number # None
            /\ NumberIn(files[plan.issues_to_create[i].path]) = workers[i].number
            /\ NumberIn(files[plan.issues_to_create[j].path]) = workers[j].number
            /\ workers[i].number # workers[j].number

\* The last call that was made for the path.
LastCall(log, p) == log[p][Len(log[p])]

\* The step is the return of a create call of the path with a number.
CreateReturnsNumber(p) ==
    /\ calls[p] # <<>>
    /\ LastCall(calls, p).op \in {"create_milestone", "create_issue"}
    /\ LastCall(calls, p).result = "pending"
    /\ Len(calls'[p]) = Len(calls[p])
    /\ LastCall(calls', p).result = "number"

\* C33: during apply_sync_plan a document is written only after the remote
\* create of that very document has succeeded.  The documents of the update
\* lists, those whose create failed or returned no number and those skipped
\* for an unresolved milestone stay as they are.
C33_WrittenOnlyAfterItsCreate ==
    [][Applying =>
            \A p \in Written :
                /\ p \in Paths(plan.milestones_to_create) \cup Paths(plan.issues_to_create)
                /\ CreateReturnsNumber(p)]_vars

\* apply_sync_plan has returned: one create returned no number and left
\* its file without number, another wrote its number, and an update was
\* called.
C33_Witness ==
    /\ pc = "applied"
    /\ \E p, q, u \in AllPaths :
            /\ calls[p] # <<>> /\ LastCall(calls, p).result = "nonumber"
            /\ NumberIn(files[p]) = None
            /\ calls[q] # <<>> /\ calls[q][1].result = "number"
            /\ NumberIn(files[q]) = calls[q][1].returned
            /\ calls[u] # <<>> /\ calls[u][1].op \in {"update_milestone", "update_issue"}

(***************************************************************************)
(* Termination.                                                            *)
(***************************************************************************)
\* apply_sync_plan has returned or raised.
ApplyOver == pc \in {"applied", "crashed"}

\* The command has ended.
CommandOver == pc \in {"exit0", "exit1", "crashed", "raised"}

EveryEntryAccounted == \A k \in DOMAIN PlanEntries : Accounted(PlanEntries[k])

\* C34: with remote calls that return or fail and fair scheduling,
\* apply_sync_plan terminates, and when it has every item of every phase
\* is processed: its call was made, or it was skipped and an error says why.
C34_TerminatesWithEveryItemProcessed ==
    /\ Applying ~> ApplyOver
    /\ [](ApplyOver => EveryEntryAccounted)

\* What holds of C34: apply_sync_plan always returns or raises, and the
\* command then ends.
C34_Terminates == Applying ~> CommandOver

\* And when apply_sync_plan has returned, every entry is accounted for but
\* the issues with an explicit null milestone in a milestone directory.
C34_ProcessedWhenReturned ==
    pc = "applied" =>
        /\ \A j \in DOMAIN plan.milestones_to_create :
                Accounted(plan.milestones_to_create[j])
        /\ \A j \in DOMAIN plan.milestones_to_update :
                Accounted(plan.milestones_to_update[j])
        /\ \A i \in DOMAIN IssueItems :
                Accounted(IssueItems[i]) \/ NullInDirectory(IssueItems[i])

\* apply_sync_plan has ended with a create_milestone call that raised, and
\* an entry of the plan has neither call nor error.
C34_EndedWithItemsLeft ==
    /\ pc = "crashed"
    /\ ~EveryEntryAccounted

(***************************************************************************)
(* Parse errors stop the command.                                          *)
(***************************************************************************)
\* build_sync_plan returns a non-empty error list for the tree.
BuildErrors(fs, ds) ==
    LET b == build_sync_plan(fs, ds)
    IN  ~b.raised /\ b.errors # <<>>

\* C35 as it holds: from the call of build_sync_plan on, a command whose
\* build reports an error makes no remote call, writes no file and exits
\* with code 1; what --import-existing wrote before the build stays written.
C35_NothingAppliedAfterParseErrors ==
    /\ [][pc = "start" /\ BuildErrors(files, dirs) =>
                /\ pc' = "exit1"
                /\ files' = files /\ dirs' = dirs
                /\ calls = NoCalls /\ calls' = NoCalls]_vars
    /\ [][pc # "exit1"]_vars

\* C35: when build_sync_plan reports an error the command applies nothing:
\* no remote create or update call, no local file written by the command,
\* exit code 1.
C35_NothingAppliedOnParseErrors ==
    /\ C35_NothingAppliedAfterParseErrors
    /\ [][pc = "begin" /\ pc' = "start" /\ BuildErrors(files', dirs') =>
                files' = files /\ dirs' = dirs]_vars

\* The build reported an error and classified other documents; the command
\* has credentials and is no dry run, and it ended with code 1 and no call.
C35_Witness ==
    /\ pc = "exit1"
    /\ ~cmd.dry_run /\ cmd.auth = "ok"
    /\ BuildErrors(files, dirs)
    /\ errors # <<>>
    /\ AnyWork(plan)
    /\ calls = NoCalls

\* The import created a file, and the build then reported an error.
C35_ImportedBeforeParseErrors ==
    /\ pc = "exit1"
    /\ BuildErrors(files, dirs)
    /\ cmd.imported # None /\ ~cmd.dry_run
    /\ cmd.imported.issues_created > 0

(***************************************************************************)
(* The import matches local files to remote issues.                        *)
(***************************************************************************)
\* The step is a non-dry-run import_existing_issues whose listing returns
\* and whose collectors return.
Imports ==
    /\ pc = "begin"
    /\ cmd.layout /\ cmd.import_existing /\ cmd.auth = "ok"
    /\ ~cmd.list_raises
    /\ ~_collect_existing_issues(files, dirs).raised
    /\ ~_collect_existing_by_content(files, dirs).raised

\* Lines 64 and 72-74: the loop takes the branch of the content match for
\* the issue.
MatchedByContent(issue, numbers, entries) ==
    /\ ~issue.pull_request
    /\ Truthy(issue.number)
    /\ ~DictHas(numbers, issue.number)
    /\ issue.title # ""
    /\ issue.body # None
    /\ DictHas(entries, _content_key(issue.title, issue.body))

\* Line 75: the local file the issue is matched to.
ContentPath(issue, entries) == DictGet(entries, _content_key(issue.title, issue.body))

\* The remote issues of the listing that are matched by content.
ContentMatched ==
    {k \in DOMAIN cmd.remote :
        MatchedByContent(cmd.remote[k], _collect_existing_issues(files, dirs).d,
                         _collect_existing_by_content(files, dirs).d)}

MatchedPath(k) ==
    ContentPath(cmd.remote[k], _collect_existing_by_content(files, dirs).d)

\* After the import the file matched to issue k, at its path or moved
\* under its name, records the number of issue k.
BackFilled(k) ==
    \E p \in AllPaths :
        /\ p.name = MatchedPath(k).name
        /\ files'[p].exists
        /\ NumberIn(files'[p]) = cmd.remote[k].number

\* C36: in one import run a local file is matched by content to at most one
\* remote issue: a later issue of the same title and body neither
\* overwrites the number that was back-filled nor reads the file at the
\* path it was moved from, and no two remote issues share a local file.
C36_OneRemoteIssuePerLocalFile ==
    [][Imports /\ ~cmd.dry_run =>
            /\ \A j, k \in ContentMatched : j # k => MatchedPath(j) # MatchedPath(k)
            /\ ContentMatched # {} => pc' # "import_raised"
            /\ \A k \in ContentMatched : pc' # "import_raised" => BackFilled(k)]_vars

\* What holds of C36: a file matched by one remote issue only is
\* back-filled with that number, moved or not, and the import returns.
C36_HoldsForOneMatch ==
    [][/\ Imports /\ ~cmd.dry_run
       /\ ContentMatched # {}
       /\ \A j, k \in ContentMatched : j # k => MatchedPath(j) # MatchedPath(k)
       => pc' # "import_raised" /\ \A k \in ContentMatched : BackFilled(k)]_vars

\* Two remote issues were matched to one root file that stayed in place:
\* the import returned and the file records the number of the second.
C36_NumberOverwritten ==
    /\ pc = "start" /\ ~cmd.dry_run /\ cmd.imported # None
    /\ Len(cmd.remote) = 2
    /\ cmd.remote[1].title = cmd.remote[2].title /\ cmd.remote[1].body = cmd.remote[2].body
    /\ cmd.imported.issues_created = 0
    /\ files[RootA].exists /\ NumberIn(files[RootA]) = cmd.remote[2].number
    /\ \A p \in AllPaths : files[p].exists => NumberIn(files[p]) # cmd.remote[1].number

\* The first of them moved the file, and the second did not find it.
C36_MovedFileNotFound ==
    /\ pc = "import_raised" /\ ~cmd.dry_run /\ ~cmd.list_raises
    /\ Len(cmd.remote) = 2
    /\ cmd.remote[1].title = cmd.remote[2].title /\ cmd.remote[1].body = cmd.remote[2].body
    /\ ~files[RootA].exists
    /\ files[Path("milestones/m1/issues", "a.md")].exists

(***************************************************************************)
(* The counts of the import.                                               *)
(***************************************************************************)
IsIssue(entry) == ~entry.pull_request

\* The import has returned its counts.
Imported == pc = "start" /\ cmd.import_existing /\ cmd.imported # None

\* C37: the counts partition the listing: issues_created + issues_moved +
\* issues_skipped is the number of entries that are no pull request, and a
\* pull request changes neither the counts nor the tree: the import leaves
\* what it leaves for the listing without the pull requests.
C37_CountsPartitionTheListing ==
    /\ [](Imported =>
            cmd.imported.issues_created + cmd.imported.issues_moved
                + cmd.imported.issues_skipped = Len(SelectSeq(cmd.remote, IsIssue)))
    /\ [][Imports =>
            LET r == import_existing_issues(files, dirs, SelectSeq(cmd.remote, IsIssue),
                                            FALSE, cmd.dry_run)
            IN  /\ files' = r.files
                /\ dirs' = r.dirs
                /\ ~r.raised =>
                        /\ cmd'.imported.issues_created = r.issues_created
                        /\ cmd'.imported.issues_moved = r.issues_moved
                        /\ cmd'.imported.issues_skipped = r.issues_skipped
                        /\ cmd'.imported.milestones_created = r.milestones_created]_vars

\* A non-dry-run import of an issue and of a pull request with a milestone
\* has returned: one entry is counted and the milestone has no directory.
C37_Witness ==
    /\ Imported /\ ~cmd.dry_run
    /\ \E k \in DOMAIN cmd.remote :
            cmd.remote[k].pull_request /\ cmd.remote[k].milestone # None
    /\ cmd.imported.issues_created + cmd.imported.issues_moved
            + cmd.imported.issues_skipped = 1
    /\ "milestones/m1" \notin dirs

(***************************************************************************)
(* The import run again.                                                   *)
(***************************************************************************)
\* A non-dry-run import of the same listing on the tree fs, ds.
Again(fs, ds) == import_existing_issues(fs, ds, cmd.remote, FALSE, FALSE)

\* The import run on fs, ds creates and moves nothing and leaves the tree.
NothingToImport(fs, ds) ==
    /\ ~Again(fs, ds).raised
    /\ Again(fs, ds).issues_created = 0
    /\ Again(fs, ds).issues_moved = 0
    /\ Again(fs, ds).milestones_created = 0
    /\ Again(fs, ds).files = fs
    /\ Again(fs, ds).dirs = ds

\* C38: a second non-dry-run import of the same listing, on the tree the
\* first has left, creates no file, moves no file, creates no milestone and
\* leaves the tree as it is.
C38_SecondImportChangesNothing ==
    [][Imports /\ ~cmd.dry_run /\ pc' = "start" => NothingToImport(files', dirs')]_vars

\* What holds of C38: the same, when no two remote issues are matched by
\* content to one local file.
C38_HoldsForOneMatch ==
    [][/\ Imports /\ ~cmd.dry_run /\ pc' = "start"
       /\ \A j, k \in ContentMatched : j # k => MatchedPath(j) # MatchedPath(k)
       => NothingToImport(files', dirs')]_vars

\* The first import has matched two remote issues to one local file, and
\* the second import creates a file.
C38_SecondImportCreates ==
    /\ Imported /\ ~cmd.dry_run
    /\ cmd.imported.issues_created = 0
    /\ Len(cmd.remote) = 2
    /\ ~Again(files, dirs).raised
    /\ Again(files, dirs).issues_created = 1

\* The first import has created, moved or back-filled, and the second
\* finds nothing to do.
C38_SecondImportIdle ==
    /\ Imported /\ ~cmd.dry_run
    /\ cmd.imported.issues_created + cmd.imported.issues_moved > 0
    /\ cmd.imported.milestones_created > 0
    /\ NothingToImport(files, dirs)

(***************************************************************************)
(* The milestones of the import.                                           *)
(***************************************************************************)
\* The titles of the milestones that the issues of the listing carry.
MilestonesListed ==
    {cmd.remote[k].milestone.title :
        k \in {j \in DOMAIN cmd.remote :
                /\ IsIssue(cmd.remote[j])
                /\ Truthy(cmd.remote[j].number)
                /\ cmd.remote[j].milestone # None}}

\* The import leaves every milestone.md that exists as it is.
MilestoneFilesKept ==
    [][Imports =>
            \A p \in AllPaths :
                p.name = MILESTONE_FILENAME /\ files[p].exists => files'[p] = files[p]]_vars

\* C39: however many remote issues share a milestone, the import creates
\* its directory and milestone.md at most once, overwrites no milestone.md
\* that exists, and counts the milestone at most once in
\* milestones_created, in a dry run as well.
C39_MilestoneEnsuredOnce ==
    /\ [](Imported => cmd.imported.milestones_created <= Cardinality(MilestonesListed))
    /\ MilestoneFilesKept

\* What holds of C39: the same for an import that is no dry run.
C39_HoldsWithoutDryRun ==
    /\ [](Imported /\ ~cmd.dry_run =>
                cmd.imported.milestones_created <= Cardinality(MilestonesListed))
    /\ MilestoneFilesKept

\* A dry run has counted the one milestone of two remote issues twice.
C39_CountedTwice ==
    /\ Imported /\ cmd.dry_run
    /\ Cardinality(MilestonesListed) = 1
    /\ cmd.imported.milestones_created = 2

\* Without --dry-run the milestone of two remote issues is counted once.
C39_CountedOnce ==
    /\ Imported /\ ~cmd.dry_run
    /\ Len(cmd.remote) = 2
    /\ \A k \in DOMAIN cmd.remote : IsIssue(cmd.remote[k]) /\ cmd.remote[k].milestone # None
    /\ cmd.imported.milestones_created = 1

(***************************************************************************)
(* The file of a new imported issue.                                       *)
(***************************************************************************)
\* The remote issues for which the loop reaches line 83: no pull request,
\* numbered, and matched to no local file by number or by content.
NewIssues ==
    {k \in DOMAIN cmd.remote :
        /\ IsIssue(cmd.remote[k])
        /\ Truthy(cmd.remote[k].number)
        /\ ~DictHas(_collect_existing_issues(files, dirs).d, cmd.remote[k].number)
        /\ k \notin ContentMatched}

\* The directory that receives the issue.
TargetDir(issue) ==
    IF issue.milestone # None /\ issue.milestone.title # ""
    THEN IssuesDirOf("milestones/" \o _slugify(issue.milestone.title))
    ELSE ROOT_ISSUES_DIR

\* The file written for the issue.
FileOf(issue) ==
    _write_issue(issue, IF issue.milestone = None THEN None ELSE PyStr(issue.milestone.title))

\* The names <date>-<slug>-<k>.md of the model, by k.
Counted == (2 :> "00000000-a-2.md") @@ (3 :> "00000000-a-3.md")

\* The rule for the name of an issue of title A and number 8 in a
\* directory of the tree fs: the base name when it is free, else the name
\* with the number, else the name with the first free counter from 2.
NamedByRule(fs, p) ==
    IF ~fs[Path(p.dir, "00000000-a.md")].exists THEN p.name = "00000000-a.md"
    ELSE IF ~fs[Path(p.dir, "00000000-a-8.md")].exists THEN p.name = "00000000-a-8.md"
    ELSE \E k \in DOMAIN Counted :
            /\ p.name = Counted[k]
            /\ ~fs[p].exists
            /\ \A j \in DOMAIN Counted : j < k => fs[Path(p.dir, Counted[j])].exists

\* C40: a new imported issue overwrites no local file: every file that
\* exists is left as it was; each new issue of the listing has its own
\* file at a path that was free, also when several issues have the same
\* title and date; and the path of an issue imported alone follows the
\* rule: base name, else base name with the number, else first free
\* counter from 2.
C40_NewIssueTakesAFreePath ==
    [][Imports /\ ~cmd.dry_run =>
            /\ pc' = "start"
            /\ \A p \in AllPaths : files[p].exists => files'[p] = files[p]
            /\ \A k \in NewIssues :
                    \E p \in AllPaths :
                        /\ p.dir = TargetDir(cmd.remote[k])
                        /\ ~files[p].exists
                        /\ files'[p] = FileOf(cmd.remote[k])
                        /\ Len(cmd.remote) = 1 => NamedByRule(files, p)
            /\ cmd'.imported.issues_created = Cardinality(NewIssues)]_vars

\* Two issues of the same title and date were imported into a directory in
\* which the base name with the number was taken: each has its own file,
\* the second under a name with a counter.
C40_Witness ==
    /\ pc = "start" /\ ~cmd.dry_run /\ cmd.imported # None
    /\ cmd.imported.issues_created = 2
    /\ NumberIn(files[Path(ROOT_ISSUES_DIR, "00000000-a.md")]) = PyInt(7)
    /\ NumberIn(files[Path(ROOT_ISSUES_DIR, "00000000-a-8.md")]) = PyInt(11)
    /\ \E k \in DOMAIN Counted :
            NumberIn(files[Path(ROOT_ISSUES_DIR, Counted[k])]) = PyInt(8)

\* An issue imported alone found the base name, the name with its number
\* and the name with counter 2 taken, and has its file under counter 3.
C40_WitnessCounter ==
    /\ pc = "start" /\ ~cmd.dry_run /\ cmd.imported # None
    /\ Len(cmd.remote) = 1
    /\ NumberIn(files[Path(ROOT_ISSUES_DIR, "00000000-a.md")]) = PyInt(11)
    /\ NumberIn(files[Path(ROOT_ISSUES_DIR, "00000000-a-8.md")]) = PyInt(11)
    /\ NumberIn(files[Path(ROOT_ISSUES_DIR, "00000000-a-2.md")]) = PyInt(11)
    /\ NumberIn(files[Path(ROOT_ISSUES_DIR, "00000000-a-3.md")]) = PyInt(8)

=============================================================================
